---- MODULE Spec2Model ----
(***************************************************************************)
(* Streaming tool-call relay of the LLM Tools API server:                  *)
(* app.post("/chat/completions") of index.js.  One session is modelled as  *)
(* a sequential process that suspends at its awaits (fetch, reader.read,   *)
(* executor.execute); every action is the code between two awaits.         *)
(***************************************************************************)
EXTENDS Integers, Sequences, FiniteSets, TLC

\* ---------------------------------------------------------------- bounds
MaxOuter == 3        \* lines the outer upstream stream delivers at most
MaxFragments == 2    \* outer events that carry a tool_calls fragment at most
MaxNested == 1       \* chunks the continuation streams of a session deliver at most
MaxChunkLines == 2   \* lines in one chunk of a continuation stream at most
MaxFaults == 1       \* upstream faults (rejected fetch or read, non-ok status) at most
MaxAccFragments == 2 \* fragment events of the accumulator specification at most
MaxFbFragments == 3  \* fragment events of the fallback specification at most
MaxRequests == 2     \* concurrent requests to /execute and /execute/batch at most
MaxBatch == 3        \* tools in the body of /execute/batch at most
MaxSessions == 2     \* /chat/completions sessions in progress at the same time at most
MaxLines == 3        \* complete lines in the upstream text of a chunked session at most
\* chunks of one continuation stream in the specification of such streams
MaxNestedChunks == 2

\* ------------------------------------------------------- upstream values
NoContent == <<>>    \* delta.content absent, null or "" (all falsy)
NoId == ""           \* toolCall.id absent, null or ""

CallIds == {"a1", "a2"}
Names == {"calc", "ulate"}
\* argument text is a sequence of characters
ArgOpen == <<"{", "\"", "x", "\"">>      \* {"x"
ArgQuoteTail == <<"\"", ":", "4", "}">>  \* ":4}
ArgTail == <<":", "4", "}">>             \* :4}
ArgWhole == <<"{", "}">>                 \* {}
ArgTexts == {ArgOpen, ArgQuoteTail, ArgTail, ArgWhole}

\* the fragments upstream sends; without an id only the arguments count
Fragments ==
    {f \in [id : CallIds \cup {NoId}, name : Names \cup {""}, arguments : ArgTexts \cup {<<>>}] :
        f.id = NoId => f.name = "" /\ f.arguments # <<>>}

FinishReasons == {"none", "stop", "tool_calls"}

OrigMessages == << [role |-> "user", content |-> "q"] >>

\* ------------------------------------------------------------ JSON.parse
Digits == {"4"}

RECURSIVE NumEnd(_, _)
\* index after the maximal run of digits starting at i
NumEnd(s, i) == IF i <= Len(s) /\ s[i] \in Digits THEN NumEnd(s, i + 1) ELSE i

RECURSIVE StrEnd(_, _)
\* index of the closing quote of a string whose first character is at i, 0 if none
StrEnd(s, i) ==
    IF i > Len(s) THEN 0
    ELSE IF s[i] = "\"" THEN i
    ELSE StrEnd(s, i + 1)

RECURSIVE Flat(_)
Flat(s) == IF s = <<>> THEN "" ELSE Head(s) \o Flat(Tail(s))

ParseFail == [ok |-> FALSE, next |-> 0, val |-> <<>>]

RECURSIVE ParseValue(_, _)
\* value starting at s[i]: [ok, next index, value as a list of tokens]
ParseValue(s, i) ==
    IF i > Len(s) THEN ParseFail
    ELSE IF s[i] \in Digits THEN
        LET j == NumEnd(s, i)
        IN [ok |-> TRUE, next |-> j, val |-> <<"num:" \o Flat(SubSeq(s, i, j - 1))>>]
    ELSE IF s[i] = "\"" THEN
        LET j == StrEnd(s, i + 1)
        IN IF j = 0 THEN ParseFail
           ELSE [ok |-> TRUE, next |-> j + 1,
                 val |-> <<"str:" \o Flat(SubSeq(s, i + 1, j - 1))>>]
    ELSE IF s[i] = "{" THEN
        IF i + 1 <= Len(s) /\ s[i + 1] = "}"
        THEN [ok |-> TRUE, next |-> i + 2, val |-> <<"{", "}">>]
        ELSE IF i + 1 <= Len(s) /\ s[i + 1] = "\"" THEN
            LET k == StrEnd(s, i + 2)
            IN IF k = 0 \/ k + 1 > Len(s) \/ s[k + 1] # ":" THEN ParseFail
               ELSE LET v == ParseValue(s, k + 2)
                    IN IF v.ok /\ v.next <= Len(s) /\ s[v.next] = "}"
                       THEN [ok |-> TRUE, next |-> v.next + 1,
                             val |-> <<"{", "key:" \o Flat(SubSeq(s, i + 2, k - 1))>>
                                     \o v.val \o <<"}">>]
                       ELSE ParseFail
        ELSE ParseFail
    ELSE ParseFail

\* JSON.parse(text): the whole text must be one value
JSONParse(s) ==
    LET r == ParseValue(s, 1)
    IN IF r.ok /\ r.next = Len(s) + 1 THEN [ok |-> TRUE, val |-> r.val]
       ELSE [ok |-> FALSE, val |-> <<>>]


\* ------------------------------------------------- Tool-Call Accumulator
\* The Map accumulatedToolCalls is a sequence of entries in insertion order.
NewEntry(id) == [id |-> id, name |-> "", arguments |-> <<>>]

IndexOf(tbl, id) ==
    IF \E i \in 1..Len(tbl) : tbl[i].id = id
    THEN CHOOSE i \in 1..Len(tbl) : tbl[i].id = id
    ELSE 0

Has(tbl, id) == IndexOf(tbl, id) # 0

Delete(tbl, id) ==
    LET i == IndexOf(tbl, id)
    IN IF i = 0 THEN tbl ELSE SubSeq(tbl, 1, i - 1) \o SubSeq(tbl, i + 1, Len(tbl))

EndsWithBrace(a) == a # <<>> /\ a[Len(a)] = "}"

\* accumulated.function.name && (!arguments || !arguments.endsWith("}"))
Incomplete(e) == e.name # "" /\ (e.arguments = <<>> \/ ~EndsWithBrace(e.arguments))

\* mutant of TargetIndex: the most recent candidate is picked
TargetIndexLast(tbl) ==
    IF \E i \in 1..Len(tbl) : Incomplete(tbl[i])
    THEN CHOOSE i \in 1..Len(tbl) :
            Incomplete(tbl[i]) /\ \A j \in (i + 1)..Len(tbl) : ~Incomplete(tbl[j])
    ELSE 0

\* index of the first entry the missing-id fallback picks, 0 if none
TargetIndex(tbl) ==
    IF \E i \in 1..Len(tbl) : Incomplete(tbl[i])
    THEN CHOOSE i \in 1..Len(tbl) :
            Incomplete(tbl[i]) /\ \A j \in 1..(i - 1) : ~Incomplete(tbl[j])
    ELSE 0

\* mutant of Merge: the argument text of a fragment replaces the text
\* accumulated so far
MergeOverwrite(tbl, f) ==
    IF f.id = NoId THEN
        LET t == TargetIndex(tbl)
        IN IF t # 0 /\ f.arguments # <<>>
           THEN [tbl EXCEPT ![t].arguments = f.arguments]
           ELSE tbl
    ELSE
        LET t1 == IF Has(tbl, f.id) THEN tbl ELSE Append(tbl, NewEntry(f.id))
            i == IndexOf(t1, f.id)
            t2 == IF f.name # "" THEN [t1 EXCEPT ![i].name = f.name] ELSE t1
        IN IF f.arguments # <<>>
           THEN [t2 EXCEPT ![i].arguments = f.arguments]
           ELSE t2

\* mutant of Merge: the argument text of a fragment is put in front of the
\* text accumulated so far
MergePrepend(tbl, f) ==
    IF f.id = NoId THEN
        LET t == TargetIndex(tbl)
        IN IF t # 0 /\ f.arguments # <<>>
           THEN [tbl EXCEPT ![t].arguments = f.arguments \o @]
           ELSE tbl
    ELSE
        LET t1 == IF Has(tbl, f.id) THEN tbl ELSE Append(tbl, NewEntry(f.id))
            i == IndexOf(t1, f.id)
            t2 == IF f.name # "" THEN [t1 EXCEPT ![i].name = f.name] ELSE t1
        IN IF f.arguments # <<>>
           THEN [t2 EXCEPT ![i].arguments = f.arguments \o @]
           ELSE t2

\* mutant of Merge: a name is set only while the entry has none
MergeKeepName(tbl, f) ==
    IF f.id = NoId THEN
        LET t == TargetIndex(tbl)
        IN IF t # 0 /\ f.arguments # <<>>
           THEN [tbl EXCEPT ![t].arguments = @ \o f.arguments]
           ELSE tbl
    ELSE
        LET t1 == IF Has(tbl, f.id) THEN tbl ELSE Append(tbl, NewEntry(f.id))
            i == IndexOf(t1, f.id)
            t2 == IF f.name # "" /\ t1[i].name = "" THEN [t1 EXCEPT ![i].name = f.name] ELSE t1
        IN IF f.arguments # <<>>
           THEN [t2 EXCEPT ![i].arguments = @ \o f.arguments]
           ELSE t2

\* mutant of Merge: the missing-id fallback replaces the argument text of
\* the entry it picks
MergeFallbackReplace(tbl, f) ==
    IF f.id = NoId THEN
        LET t == TargetIndex(tbl)
        IN IF t # 0 /\ f.arguments # <<>>
           THEN [tbl EXCEPT ![t].arguments = f.arguments]
           ELSE tbl
    ELSE
        LET t1 == IF Has(tbl, f.id) THEN tbl ELSE Append(tbl, NewEntry(f.id))
            i == IndexOf(t1, f.id)
            t2 == IF f.name # "" THEN [t1 EXCEPT ![i].name = f.name] ELSE t1
        IN IF f.arguments # <<>>
           THEN [t2 EXCEPT ![i].arguments = @ \o f.arguments]
           ELSE t2

\* the body of `for (const toolCall of toolCalls)` for one fragment
Merge(tbl, f) ==
    IF f.id = NoId THEN
        LET t == TargetIndex(tbl)
        IN IF t # 0 /\ f.arguments # <<>>
           THEN [tbl EXCEPT ![t].arguments = @ \o f.arguments]
           ELSE tbl
    ELSE
        LET t1 == IF Has(tbl, f.id) THEN tbl ELSE Append(tbl, NewEntry(f.id))
            i == IndexOf(t1, f.id)
            t2 == IF f.name # "" THEN [t1 EXCEPT ![i].name = f.name] ELSE t1
        IN IF f.arguments # <<>>
           THEN [t2 EXCEPT ![i].arguments = @ \o f.arguments]
           ELSE t2

RECURSIVE MergeAll(_, _)
MergeAll(tbl, fs) == IF fs = <<>> THEN tbl ELSE MergeAll(Merge(tbl, Head(fs)), Tail(fs))

RECURSIVE Cleanup(_)
\* "Clean up any invalid entries first": entries without a name are deleted
Cleanup(tbl) ==
    IF tbl = <<>> THEN <<>>
    ELSE IF Head(tbl).id = NoId \/ Head(tbl).name = ""
         THEN Cleanup(Tail(tbl))
         ELSE <<Head(tbl)>> \o Cleanup(Tail(tbl))

\* ------------------------------------------------------- frames, requests
ContentFrame(c) == [k |-> "content", v |-> c]
ErrorFrame(m) == [k |-> "error", v |-> <<m>>]
DoneFrame == [k |-> "done", v |-> <<>>]
EndMark == [k |-> "end", v |-> <<>>]

SummaryText(name) == <<"Tool executed successfully. Result:", name>>
ResultContent(name) == <<"result", name>>      \* JSON.stringify(result)
FailureContent(m) == <<"failure", m>>          \* {"success":false,"error":m}

InvalidJson == "Invalid JSON in tool call arguments"
ToolError == "tool error"
FetchFailed == "fetch failed"
RequestFailed == "Tool result request failed"
ReadFailed == "read failed"
LMStudioError == "LM Studio error"

ContRequest(acc, content) ==
    [messages |-> OrigMessages \o
        << [role |-> "assistant", content |-> "", tool_calls |-> <<acc>>],
           [role |-> "tool", tool_call_id |-> acc.id, content |-> content] >>]


\* ------------------------------------------- /execute and /execute/batch
\* process.env.MAX_CONCURRENT_TOOLS, set to 2 (parseInt(...) || 5)
MaxConcurrentTools == 2

\* the X-API-Key header: absent, "", equal to API_KEY, any other value
KeyHeaders == {"absent", "empty", "good", "bad"}
\* the Authorization header: absent, not a Bearer header, a Bearer token that
\* jwt.verify accepts, a Bearer token that jwt.verify rejects
AuthHeaders == {"absent", "basic", "bearerGood", "bearerBad"}

Accept == [next |-> TRUE, status |-> 0, error |-> ""]
Reject(status, error) == [next |-> FALSE, status |-> status, error |-> error]

\* mutant of AuthMiddleware: a wrong API key falls through to the JWT check
AuthMiddlewareFallThrough(key, auth, e) ==
    IF key \notin {"absent", "empty"} /\ (~e.apiKey \/ key = "good")
    THEN IF ~e.apiKey THEN Reject(500, "API authentication not configured")
         ELSE Accept
    ELSE IF auth \in {"bearerGood", "bearerBad"}
    THEN IF ~e.jwtSecret THEN Reject(500, "JWT authentication not configured")
         ELSE IF auth = "bearerGood" THEN Accept
         ELSE Reject(401, "Invalid or expired token")
    ELSE Reject(401, "Authentication required. Provide API key or JWT token.")

\* authMiddleware: next() or the response it sends
AuthMiddleware(key, auth, e) ==
    IF key \notin {"absent", "empty"}
    THEN IF ~e.apiKey THEN Reject(500, "API authentication not configured")
         ELSE IF key = "good" THEN Accept
         ELSE Reject(401, "Invalid API key")
    ELSE IF auth \in {"bearerGood", "bearerBad"}
    THEN IF ~e.jwtSecret THEN Reject(500, "JWT authentication not configured")
         ELSE IF auth = "bearerGood" THEN Accept
         ELSE Reject(401, "Invalid or expired token")
    ELSE Reject(401, "Authentication required. Provide API key or JWT token.")

\* the tools of the registry, all with status "available"
Registry == {"calc"}
\* the tool names a request may carry
ToolNamesSent == {"calc", "nope"}

NotFound == "Tool not found"
LimitReached == "Maximum concurrent tool executions reached"
HandlerFailed == "handler failed"
TimedOut == "Tool execution timeout"

\* const executionId = requestId || uuidv4()
ExecutionId(hasId, i) == IF hasId THEN <<"requestId", 0>> ELSE <<"uuid", i>>

\* the promise of one executor.execute call and whether its handler runs
Rejected(err) == [st |-> "rejected", err |-> err, running |-> FALSE]
Pending == [st |-> "pending", err |-> "", running |-> TRUE]

RECURSIVE StartFrom(_, _, _, _, _)
\* the synchronous part of the execute calls for tools[i..], one after the
\* other: registry lookup, limit check, activeExecutions.set, tool.handler()
StartFrom(tools, hasId, i, active, p) ==
    IF i > Len(tools) THEN [active |-> active, p |-> p]
    ELSE IF tools[i] \notin Registry
         THEN StartFrom(tools, hasId, i + 1, active, Append(p, Rejected(NotFound)))
    ELSE IF Cardinality(active) >= MaxConcurrentTools
         THEN StartFrom(tools, hasId, i + 1, active, Append(p, Rejected(LimitReached)))
    ELSE StartFrom(tools, hasId, i + 1, active \cup {ExecutionId(hasId, i)},
                   Append(p, Pending))

\* the bodies of /execute/batch: tools is an array of at most MaxBatch tools
BatchBodies == UNION {[1..n -> ToolNamesSent] : n \in 0..MaxBatch}

\* a request that has not arrived
NoRequest ==
    [stage |-> "none", route |-> "", key |-> "", auth |-> "", ran |-> FALSE,
     tools |-> <<>>, hasId |-> FALSE, active |-> {}, p |-> <<>>,
     status |-> 0, body |-> [success |-> FALSE, error |-> "", results |-> <<>>]]

SrvInit == [r \in 1..MaxRequests |-> NoRequest]

\* ------------------------------------------------------------ the session
VARIABLES
    pc,                    \* where the handler is suspended
    accumulatedToolCalls,  \* the Map of the request, in insertion order
    res,                   \* what was written to the client: frames and res.end()
    execLog,               \* calls of executor.execute: <<name, parsedArgs, callId>>
    reqLog,                \* continuation requests sent upstream
    idx,                   \* position of the Map iterator of the execution loop
    accumulated,           \* the entry the execution loop is dispatching
    evContent,             \* delta.content of the outer event being handled
    nOuter,                \* outer lines read so far
    nFrag,                 \* outer events with tool_calls read so far
    nNested,               \* continuation chunks read so far
    recv,                  \* history: content deltas delivered by upstream
    sent,                  \* history: per id, the fragments merged into its entry
    nFault,                \* upstream faults so far
    trace,                 \* history: the order of what the handler did
    lastMerge,             \* history: the last tool_calls delta merged into the Map
    nestedCalls,           \* history: tool calls the continuation streams delivered
    http,                  \* req.body.messages and the head of the response
    clientOpen,            \* the client's connection is open
    lineRead,              \* history: the outer line the handler read last
    sessions,              \* the sessions whose upstream text arrives in chunks
    nestedDone,            \* history: the continuation request whose stream delivered [DONE]
    headers,               \* the X-API-Key and Authorization headers of the chat request
    srv,                   \* the requests to /execute and /execute/batch
    env                    \* process.env: is API_KEY set, is JWT_SECRET set

\* the state of a /chat/completions session
sessionVars == <<pc, accumulatedToolCalls, res, execLog, reqLog, idx, accumulated,
                 evContent, nOuter, nFrag, nNested, recv, sent, nFault, trace,
                 lastMerge, nestedCalls, http, clientOpen, lineRead, nestedDone, headers>>

vars == <<sessionVars, sessions, srv, env>>

NoEntry == NewEntry(NoId)
NoSent == [names |-> <<>>, args |-> <<>>, noid |-> FALSE]
\* the Map before the loop over delta.tool_calls, the fragments, the Map after
NoMerge == [before |-> <<>>, tcs |-> <<>>, after |-> <<>>]

\* no outer line was read
NoLine == [kind |-> "none", fin |-> ""]
NoHeaders == [key |-> "absent", auth |-> "absent"]

\* a session of the chunked specifications before its request: what upstream
\* will send, what was read of it (history), buffer, the lines of the chunk
\* still to be handled, the lines split off so far (history), whether a read
\* began with text in the buffer (history), the outcomes of the executor
\* calls (history), the Map, the position of the execution loop, the frames
\* written, the executor calls, the continuation requests
NoSession ==
    [pc |-> "start", upstream |-> <<>>, consumed |-> <<>>, buffer |-> <<>>,
     lines |-> <<>>, yielded |-> <<>>, carried |-> FALSE, outs |-> <<>>,
     map |-> <<>>, idx |-> 0, accumulated |-> NoEntry, evContent |-> NoContent,
     res |-> <<>>, execLog |-> <<>>, reqLog |-> <<>>]

NoSessions == [s \in 1..MaxSessions |-> NoSession]

\* a session that has not started
SessionInit ==
    /\ pc = "start"
    /\ accumulatedToolCalls = <<>>
    /\ res = <<>>
    /\ execLog = <<>>
    /\ reqLog = <<>>
    /\ idx = 0
    /\ accumulated = NoEntry
    /\ evContent = NoContent
    /\ nOuter = 0
    /\ nFrag = 0
    /\ nNested = 0
    /\ recv = <<>>
    /\ sent = [i \in CallIds |-> NoSent]
    /\ nFault = 0
    /\ trace = <<>>
    /\ lastMerge = NoMerge
    /\ nestedCalls = 0
    /\ http = [messages |-> "none", status |-> "none"]
    /\ clientOpen = TRUE
    /\ lineRead = NoLine
    /\ nestedDone = 0
    /\ headers = NoHeaders

Init ==
    /\ SessionInit
    /\ sessions = NoSessions
    /\ srv = SrvInit
    /\ env = [apiKey |-> TRUE, jwtSecret |-> TRUE]

\* history of one merged fragment
Track(tbl, h, f) ==
    IF f.id = NoId THEN
        LET t == TargetIndex(tbl)
        IN IF t # 0 /\ f.arguments # <<>>
           THEN [h EXCEPT ![tbl[t].id].args = Append(@, f.arguments),
                          ![tbl[t].id].noid = TRUE]
           ELSE h
    ELSE
        LET h1 == IF Has(tbl, f.id) THEN h ELSE [h EXCEPT ![f.id] = NoSent]
            h2 == IF f.name # "" THEN [h1 EXCEPT ![f.id].names = Append(@, f.name)] ELSE h1
        IN IF f.arguments # <<>>
           THEN [h2 EXCEPT ![f.id].args = Append(@, f.arguments)]
           ELSE h2

RECURSIVE TrackAll(_, _, _)
TrackAll(tbl, h, fs) ==
    IF fs = <<>> THEN h
    ELSE TrackAll(Merge(tbl, Head(fs)), Track(tbl, h, Head(fs)), Tail(fs))

\* mutant of LoopFrom: an entry whose argument text does not parse is passed
\* over like an entry without arguments
LoopFromSkipBad(tbl, i) ==
    LET ready == {j \in i..Len(tbl) :
                    tbl[j].name # "" /\ tbl[j].arguments # <<>> /\ JSONParse(tbl[j].arguments).ok}
    IN IF ready = {} THEN [kind |-> "finished", idx |-> IF i > Len(tbl) THEN i ELSE Len(tbl) + 1]
       ELSE [kind |-> "execute", idx |-> CHOOSE j \in ready : \A k \in ready : j <= k]

\* the execution loop from iterator position i up to its next await
LoopFrom(tbl, i) ==
    LET ready == {j \in i..Len(tbl) : tbl[j].name # "" /\ tbl[j].arguments # <<>>}
    IN IF ready = {}
       THEN [kind |-> "finished", idx |-> IF i > Len(tbl) THEN i ELSE Len(tbl) + 1]
       ELSE LET j == CHOOSE k \in ready : \A m \in ready : k <= m
            IN IF JSONParse(tbl[j].arguments).ok
               THEN [kind |-> "execute", idx |-> j]
               ELSE [kind |-> "parseError", idx |-> j]

\* mutant of Catch: the failed call's entry is left in the table
CatchKeep(m) ==
    /\ accumulatedToolCalls' = accumulatedToolCalls
    /\ reqLog' = Append(reqLog, ContRequest(accumulated, FailureContent(m)))
    /\ pc' = "fetchErr"
    /\ UNCHANGED <<res, execLog, idx, accumulated, evContent>>

\* the catch block of a dispatch, up to its await of the error continuation
Catch(m) ==
    /\ accumulatedToolCalls' = Delete(accumulatedToolCalls, accumulated.id)
    /\ reqLog' = Append(reqLog, ContRequest(accumulated, FailureContent(m)))
    /\ pc' = "fetchErr"
    /\ UNCHANGED <<res, execLog, idx, accumulated, evContent>>

\* the per-line catch "Ignore parsing errors for malformed JSON": the rest of
\* the event's handling is skipped and the line loop goes on
Swallow ==
    /\ pc' = "readOuter"
    /\ idx' = 0
    /\ accumulated' = NoEntry
    /\ evContent' = NoContent
    /\ UNCHANGED <<accumulatedToolCalls, res, execLog, reqLog>>

\* run the execution loop on from position i with table tbl, client log r
\* and event content c; when the loop is over, "Handle regular content
\* streaming" and go back to reader.read()
Continue(tbl, i, r, c) ==
    LET l == LoopFrom(tbl, i)
    IN  CASE l.kind = "finished" ->
              /\ res' = (IF c # NoContent THEN Append(r, ContentFrame(c)) ELSE r)
              /\ pc' = "readOuter"
              /\ accumulatedToolCalls' = tbl
              /\ idx' = 0
              /\ accumulated' = NoEntry
              /\ evContent' = NoContent
              /\ UNCHANGED <<execLog, reqLog>>
          [] l.kind = "execute" ->
              /\ execLog' = Append(execLog,
                    <<tbl[l.idx].name, JSONParse(tbl[l.idx].arguments).val, tbl[l.idx].id>>)
              /\ pc' = "exec"
              /\ accumulatedToolCalls' = tbl
              /\ idx' = l.idx
              /\ accumulated' = tbl[l.idx]
              /\ evContent' = c
              /\ res' = r
              /\ UNCHANGED reqLog
          [] l.kind = "parseError" ->
              /\ accumulatedToolCalls' = Delete(tbl, tbl[l.idx].id)
              /\ reqLog' = Append(reqLog, ContRequest(tbl[l.idx], FailureContent(InvalidJson)))
              /\ pc' = "fetchErr"
              /\ idx' = l.idx
              /\ accumulated' = tbl[l.idx]
              /\ evContent' = c
              /\ res' = r
              /\ UNCHANGED execLog


\* --------------------------------------------------------------- actions
Fault == nFault < MaxFaults /\ nFault' = nFault + 1
NoFault == nFault' = nFault

\* The history of one step, in the order of the code between two awaits: the
\* outer line read, the end of the continuation stream that was being
\* awaited, the frames written, the executor call, the continuation request.
Ev(e, id, n) == [e |-> e, id |-> id, n |-> n]

Step(closing) ==
    trace' = trace
        \o (IF nOuter' # nOuter THEN <<Ev("line", "", nOuter')>> ELSE <<>>)
        \o (IF closing THEN <<Ev("closed", accumulated.id, Len(reqLog))>> ELSE <<>>)
        \o [i \in 1..(Len(res') - Len(res)) |-> Ev("write", "", Len(res) + i)]
        \o (IF Len(execLog') > Len(execLog)
            THEN <<Ev("execute", execLog'[Len(execLog')][3], Len(execLog'))>> ELSE <<>>)
        \o (IF Len(reqLog') > Len(reqLog)
            THEN <<Ev("request", reqLog'[Len(reqLog')].messages[3].tool_call_id, Len(reqLog'))>>
            ELSE <<>>)

\* req.body.messages: absent, null, a string, an object, the array OrigMessages
Bodies == {"absent", "null", "string", "object", "array"}
Truthy(m) == m \notin {"absent", "null"}
IsArray(m) == m = "array"

\* mutant of MessagesOk: Array.isArray is not asked
MessagesOkTruthy(m) == Truthy(m)

\* !(!messages || !Array.isArray(messages))
MessagesOk(m) == Truthy(m) /\ IsArray(m)

\* request entry: messages validation, writeHead, await fetch
ChatCompletions(m, key, auth) ==
    /\ pc = "start"
    /\ headers' = [key |-> key, auth |-> auth]
    /\ IF MessagesOk(m)
       THEN /\ pc' = "fetchOuter"
            /\ res' = res
            /\ http' = [messages |-> m, status |-> "200 text/event-stream"]
       ELSE /\ pc' = "done"
            /\ res' = <<[k |-> "json400", v |-> <<"Messages array is required">>], EndMark>>
            /\ http' = [messages |-> m, status |-> "400 application/json"]
    /\ UNCHANGED <<accumulatedToolCalls, execLog, reqLog, idx, accumulated,
                   evContent, nOuter, nFrag, nNested, recv, sent, nFault>>
    /\ UNCHANGED <<lastMerge, nestedCalls, clientOpen, lineRead, nestedDone, sessions, srv, env>>
    /\ Step(FALSE)

\* a request that carries neither an X-API-Key nor an Authorization header
Request(m) == ChatCompletions(m, "absent", "absent")

\* mutant of OuterCatch: the error frame is written and the response is left
\* open
OuterCatchNoEnd(m) ==
    /\ res' = res \o <<ErrorFrame(m)>>
    /\ pc' = "done"
    /\ UNCHANGED <<accumulatedToolCalls, execLog, reqLog, idx, accumulated, evContent>>

\* the outer catch: the error frame, res.end()
OuterCatch(m) ==
    /\ res' = res \o <<ErrorFrame(m), EndMark>>
    /\ pc' = "done"
    /\ UNCHANGED <<accumulatedToolCalls, execLog, reqLog, idx, accumulated, evContent>>

\* the session's control state is left as it is
Stay == UNCHANGED <<accumulatedToolCalls, res, execLog, reqLog, idx, accumulated, evContent>>

\* the outer fetch resolves or rejects
OuterFetch(o) ==
    /\ pc = "fetchOuter"
    /\ CASE o = "ok" -> pc' = "readOuter" /\ Stay /\ NoFault
         [] o = "notok" -> OuterCatch(LMStudioError) /\ Fault
         [] o = "throw" -> OuterCatch(FetchFailed) /\ Fault
    /\ UNCHANGED <<nOuter, nFrag, nNested, recv, sent>>
    /\ UNCHANGED <<lastMerge, nestedCalls, http, clientOpen, lineRead, nestedDone, headers, sessions, srv, env>>
    /\ Step(FALSE)

\* reader.read() reports done: break, finally releaseLock, the handler returns
OuterEnd ==
    /\ pc = "readOuter"
    /\ pc' = "done"
    /\ Stay
    /\ UNCHANGED <<nOuter, nFrag, nNested, recv, sent, nFault>>
    /\ UNCHANGED <<lastMerge, nestedCalls, http, clientOpen, lineRead, nestedDone, headers, sessions, srv, env>>
    /\ Step(FALSE)

\* reader.read() rejects
OuterReadFails ==
    /\ pc = "readOuter"
    /\ OuterCatch(ReadFailed)
    /\ Fault
    /\ UNCHANGED <<nOuter, nFrag, nNested, recv, sent>>
    /\ UNCHANGED <<lastMerge, nestedCalls, http, clientOpen, lineRead, nestedDone, headers, sessions, srv, env>>
    /\ Step(FALSE)

\* mutant of OuterDone: the sentinel is written and the response ended, but
\* the handler does not return and goes on reading
OuterDoneNoReturn ==
    /\ pc = "readOuter"
    /\ nOuter < MaxOuter
    /\ res' = res \o <<DoneFrame, EndMark>>
    /\ pc' = "readOuter"
    /\ nOuter' = nOuter + 1
    /\ UNCHANGED <<accumulatedToolCalls, execLog, reqLog, idx, accumulated,
                   evContent, nFrag, nNested, recv, sent, nFault>>
    /\ UNCHANGED <<lastMerge, nestedCalls, http, clientOpen, nestedDone, headers, sessions, srv, env>>
    /\ lineRead' = [kind |-> "done", fin |-> ""]
    /\ Step(FALSE)

\* the line `data: [DONE]`
OuterDone ==
    /\ pc = "readOuter"
    /\ nOuter < MaxOuter
    /\ res' = res \o <<DoneFrame, EndMark>>
    /\ pc' = "done"
    /\ nOuter' = nOuter + 1
    /\ UNCHANGED <<accumulatedToolCalls, execLog, reqLog, idx, accumulated,
                   evContent, nFrag, nNested, recv, sent, nFault>>
    /\ UNCHANGED <<lastMerge, nestedCalls, http, clientOpen, nestedDone, headers, sessions, srv, env>>
    /\ lineRead' = [kind |-> "done", fin |-> ""]
    /\ Step(FALSE)

\* mutant of OuterMalformed: the error of JSON.parse reaches the outer catch
OuterMalformedFatal ==
    /\ pc = "readOuter"
    /\ nOuter < MaxOuter
    /\ nOuter' = nOuter + 1
    /\ OuterCatch("Unexpected token")
    /\ UNCHANGED <<nFrag, nNested, recv, sent, nFault>>
    /\ UNCHANGED <<lastMerge, nestedCalls, http, clientOpen, nestedDone, headers, sessions, srv, env>>
    /\ lineRead' = [kind |-> "malformed", fin |-> ""]
    /\ Step(FALSE)

\* a blank line, a line without the data prefix, or a payload JSON.parse rejects
OuterMalformed ==
    /\ pc = "readOuter"
    /\ nOuter < MaxOuter
    /\ nOuter' = nOuter + 1
    /\ pc' = pc
    /\ Stay
    /\ UNCHANGED <<nFrag, nNested, recv, sent, nFault>>
    /\ UNCHANGED <<lastMerge, nestedCalls, http, clientOpen, nestedDone, headers, sessions, srv, env>>
    /\ lineRead' = [kind |-> "malformed", fin |-> ""]
    /\ Step(FALSE)

\* upstream numbers its calls: the id a2 is not used before a1
FreshOrder(id) == id = "a2" => (sent["a1"] # NoSent \/ sent["a2"] # NoSent)

\* mutant of HandleEvent: the frame of the tool_calls branch is written for
\* every event
HandleEventEcho(hasContent, tcs, fin) ==
    /\ pc = "readOuter"
    /\ nOuter < MaxOuter
    /\ tcs # <<>> => fin # "stop"
    /\ \A i \in 1..Len(tcs) : FreshOrder(tcs[i].id)
    /\ LET c == IF hasContent THEN <<"outer", nOuter + 1>> ELSE NoContent
           r1 == Append(res, ContentFrame(c))
           t1 == MergeAll(accumulatedToolCalls, tcs)
       IN /\ IF fin = "tool_calls"
             THEN Continue(Cleanup(t1), 1, r1, c)
             ELSE Continue(t1, Len(t1) + 1, r1, c)
          /\ recv' = (IF hasContent THEN Append(recv, c) ELSE recv)
          /\ sent' = TrackAll(accumulatedToolCalls, sent, tcs)
    /\ nOuter' = nOuter + 1
    /\ nFrag' = (IF tcs # <<>> THEN nFrag + 1 ELSE nFrag)
    /\ UNCHANGED <<nNested, nFault>>
    /\ lastMerge' = (IF tcs # <<>>
                     THEN [before |-> accumulatedToolCalls, tcs |-> tcs,
                           after |-> MergeAll(accumulatedToolCalls, tcs)]
                     ELSE lastMerge)
    /\ UNCHANGED <<nestedCalls, http, clientOpen, nestedDone, headers, sessions, srv, env>>
    /\ lineRead' = [kind |-> "event", fin |-> fin]
    /\ Step(FALSE)

\* mutant of HandleEvent: every finish_reason starts the sweep
HandleEventAnyFinish(hasContent, tcs, fin) ==
    /\ pc = "readOuter"
    /\ nOuter < MaxOuter
    /\ tcs # <<>> => fin # "stop"
    /\ \A i \in 1..Len(tcs) : FreshOrder(tcs[i].id)
    /\ LET c == IF hasContent THEN <<"outer", nOuter + 1>> ELSE NoContent
           r1 == IF tcs # <<>> THEN Append(res, ContentFrame(c)) ELSE res
           t1 == MergeAll(accumulatedToolCalls, tcs)
       IN /\ IF fin # "none"
             THEN Continue(Cleanup(t1), 1, r1, c)
             ELSE Continue(t1, Len(t1) + 1, r1, c)
          /\ recv' = (IF hasContent THEN Append(recv, c) ELSE recv)
          /\ sent' = TrackAll(accumulatedToolCalls, sent, tcs)
    /\ nOuter' = nOuter + 1
    /\ nFrag' = (IF tcs # <<>> THEN nFrag + 1 ELSE nFrag)
    /\ UNCHANGED <<nNested, nFault>>
    /\ lastMerge' = (IF tcs # <<>>
                     THEN [before |-> accumulatedToolCalls, tcs |-> tcs,
                           after |-> MergeAll(accumulatedToolCalls, tcs)]
                     ELSE lastMerge)
    /\ UNCHANGED <<nestedCalls, http, clientOpen, nestedDone, headers, sessions, srv, env>>
    /\ lineRead' = [kind |-> "event", fin |-> fin]
    /\ Step(FALSE)

\* a data line with a parsed event: tool_calls merge, finish_reason sweep,
\* regular content, up to the next await
HandleEvent(hasContent, tcs, fin) ==
    /\ pc = "readOuter"
    /\ nOuter < MaxOuter
    /\ tcs # <<>> => fin # "stop"
    /\ \A i \in 1..Len(tcs) : FreshOrder(tcs[i].id)
    /\ LET c == IF hasContent THEN <<"outer", nOuter + 1>> ELSE NoContent
           r1 == IF tcs # <<>> THEN Append(res, ContentFrame(c)) ELSE res
           t1 == MergeAll(accumulatedToolCalls, tcs)
       IN /\ IF fin = "tool_calls"
             THEN Continue(Cleanup(t1), 1, r1, c)
             ELSE Continue(t1, Len(t1) + 1, r1, c)
          /\ recv' = (IF hasContent THEN Append(recv, c) ELSE recv)
          /\ sent' = TrackAll(accumulatedToolCalls, sent, tcs)
    /\ nOuter' = nOuter + 1
    /\ nFrag' = (IF tcs # <<>> THEN nFrag + 1 ELSE nFrag)
    /\ UNCHANGED <<nNested, nFault>>
    /\ lastMerge' = (IF tcs # <<>>
                     THEN [before |-> accumulatedToolCalls, tcs |-> tcs,
                           after |-> MergeAll(accumulatedToolCalls, tcs)]
                     ELSE lastMerge)
    /\ UNCHANGED <<nestedCalls, http, clientOpen, nestedDone, headers, sessions, srv, env>>
    /\ lineRead' = [kind |-> "event", fin |-> fin]
    /\ Step(FALSE)

\* an event of the relay specification
OuterEvent(hasContent, tcs, fin) ==
    /\ tcs # <<>> => nFrag < MaxFragments
    /\ HandleEvent(hasContent, tcs, fin)

\* an event of the accumulator specification
AccEvent(tcs, fin) ==
    /\ tcs # <<>> => nFrag < MaxAccFragments
    /\ HandleEvent(FALSE, tcs, fin)

\* an event of the fallback specification
FbEvent(tcs, fin) ==
    /\ tcs # <<>> => nFrag < MaxFbFragments
    /\ HandleEvent(FALSE, tcs, fin)

\* mutant of ExecReturn: a failure of the executor ends the session through
\* the outer catch
ExecReturnFatal(o) ==
    /\ pc = "exec"
    /\ IF o = "ok"
       THEN /\ res' = Append(res, ContentFrame(SummaryText(accumulated.name)))
            /\ reqLog' = Append(reqLog,
                    ContRequest(accumulated, ResultContent(accumulated.name)))
            /\ pc' = "fetchTool"
            /\ UNCHANGED <<accumulatedToolCalls, execLog, idx, accumulated, evContent>>
       ELSE OuterCatch(ToolError)
    /\ UNCHANGED <<nOuter, nFrag, nNested, recv, sent, nFault>>
    /\ UNCHANGED <<lastMerge, nestedCalls, http, clientOpen, lineRead, nestedDone, headers, sessions, srv, env>>
    /\ Step(FALSE)

\* mutant of ExecReturn: the result goes upstream without the summary frame
\* for the client
ExecReturnQuiet(o) ==
    /\ pc = "exec"
    /\ IF o = "ok"
       THEN /\ res' = res
            /\ reqLog' = Append(reqLog,
                    ContRequest(accumulated, ResultContent(accumulated.name)))
            /\ pc' = "fetchTool"
            /\ UNCHANGED <<accumulatedToolCalls, execLog, idx, accumulated, evContent>>
       ELSE Catch(ToolError)
    /\ UNCHANGED <<nOuter, nFrag, nNested, recv, sent, nFault>>
    /\ UNCHANGED <<lastMerge, nestedCalls, http, clientOpen, lineRead, nestedDone, headers, sessions, srv, env>>
    /\ Step(FALSE)

\* mutant of ExecReturn: the turns of a continuation are added to the
\* session's messages, so a later continuation carries the earlier ones
ExecReturnCarry(o) ==
    /\ pc = "exec"
    /\ IF o = "ok"
       THEN /\ res' = Append(res, ContentFrame(SummaryText(accumulated.name)))
            /\ reqLog' = Append(reqLog,
                    [messages |->
                        (IF reqLog = <<>> THEN OrigMessages
                         ELSE reqLog[Len(reqLog)].messages) \o
                        << [role |-> "assistant", content |-> "", tool_calls |-> <<accumulated>>],
                           [role |-> "tool", tool_call_id |-> accumulated.id,
                            content |-> ResultContent(accumulated.name)] >>])
            /\ pc' = "fetchTool"
            /\ UNCHANGED <<accumulatedToolCalls, execLog, idx, accumulated, evContent>>
       ELSE Catch(ToolError)
    /\ UNCHANGED <<nOuter, nFrag, nNested, recv, sent, nFault>>
    /\ UNCHANGED <<lastMerge, nestedCalls, http, clientOpen, lineRead, nestedDone, headers, sessions, srv, env>>
    /\ Step(FALSE)

\* executor.execute settles
ExecReturn(o) ==
    /\ pc = "exec"
    /\ IF o = "ok"
       THEN /\ res' = Append(res, ContentFrame(SummaryText(accumulated.name)))
            /\ reqLog' = Append(reqLog,
                    ContRequest(accumulated, ResultContent(accumulated.name)))
            /\ pc' = "fetchTool"
            /\ UNCHANGED <<accumulatedToolCalls, execLog, idx, accumulated, evContent>>
       ELSE Catch(ToolError)
    /\ UNCHANGED <<nOuter, nFrag, nNested, recv, sent, nFault>>
    /\ UNCHANGED <<lastMerge, nestedCalls, http, clientOpen, lineRead, nestedDone, headers, sessions, srv, env>>
    /\ Step(FALSE)

\* mutant of ToolFetch: the continuation stream is not awaited, the loop
\* goes on to the next entry at once
ToolFetchNoWait(o) ==
    /\ pc = "fetchTool"
    /\ CASE o = "ok" ->
              /\ Continue(Delete(accumulatedToolCalls, accumulated.id), idx, res, evContent)
              /\ NoFault
         [] o = "notok" -> Catch(RequestFailed) /\ Fault
         [] o = "throw" -> Catch(FetchFailed) /\ Fault
    /\ UNCHANGED <<nOuter, nFrag, nNested, recv, sent>>
    /\ UNCHANGED <<lastMerge, nestedCalls, http, clientOpen, lineRead, nestedDone, headers, sessions, srv, env>>
    /\ Step(o # "ok")

\* the success continuation fetch settles
ToolFetch(o) ==
    /\ pc = "fetchTool"
    /\ CASE o = "ok" -> pc' = "readTool" /\ Stay /\ NoFault
         [] o = "notok" -> Catch(RequestFailed) /\ Fault
         [] o = "throw" -> Catch(FetchFailed) /\ Fault
    /\ UNCHANGED <<nOuter, nFrag, nNested, recv, sent>>
    /\ UNCHANGED <<lastMerge, nestedCalls, http, clientOpen, lineRead, nestedDone, headers, sessions, srv, env>>
    /\ Step(o # "ok")

\* the error continuation fetch settles
ErrFetch(o) ==
    /\ pc = "fetchErr"
    /\ CASE o = "ok" -> pc' = "readErr" /\ Stay /\ NoFault
         [] o = "notok" -> Continue(accumulatedToolCalls, idx, res, evContent) /\ Fault
         [] o = "throw" -> Swallow /\ Fault
    /\ UNCHANGED <<nOuter, nFrag, nNested, recv, sent>>
    /\ UNCHANGED <<lastMerge, nestedCalls, http, clientOpen, lineRead, nestedDone, headers, sessions, srv, env>>
    /\ Step(o # "ok")

NestedLines == {"content", "done", "tool_calls"}
\* the call a tool_calls line of a continuation stream carries
NestedCall == [id |-> "n1", name |-> "calc", arguments |-> ArgWhole]
NestedChunks == UNION {[1..n -> NestedLines] : n \in 1..MaxChunkLines}

NestedToken(i) == <<"nested", Len(reqLog), nNested * MaxChunkLines + i>>

RECURSIVE ChunkFrames(_, _)
\* the frames the nested line loop writes for lines i.. of a chunk
ChunkFrames(lines, i) ==
    IF i > Len(lines) THEN <<>>
    ELSE IF lines[i] = "done" THEN <<>>
    ELSE IF lines[i] = "content"
         THEN <<ContentFrame(NestedToken(i))>> \o ChunkFrames(lines, i + 1)
         ELSE ChunkFrames(lines, i + 1)

RECURSIVE ChunkContents(_, _)
ChunkContents(lines, i) ==
    IF i > Len(lines) THEN <<>>
    ELSE IF lines[i] = "content"
         THEN <<NestedToken(i)>> \o ChunkContents(lines, i + 1)
         ELSE ChunkContents(lines, i + 1)

RECURSIVE ChunkCalls(_, _)
\* the tool_calls lines among lines i.. of a chunk that the nested line loop
\* reaches: each is a whole call NestedCall with finish_reason "tool_calls"
ChunkCalls(lines, i) ==
    IF i > Len(lines) THEN 0
    ELSE IF lines[i] = "done" THEN 0
    ELSE IF lines[i] = "tool_calls"
         THEN 1 + ChunkCalls(lines, i + 1)
         ELSE ChunkCalls(lines, i + 1)

\* mutant of NestedRead: the [DONE] of a continuation stream is passed on to
\* the client and ends the response
NestedReadDoneEnds(lines) ==
    /\ pc \in {"readTool", "readErr"}
    /\ res' = res \o ChunkFrames(lines, 1)
                   \o (IF \E i \in DOMAIN lines : lines[i] = "done"
                       THEN <<DoneFrame, EndMark>> ELSE <<>>)
    /\ recv' = recv \o ChunkContents(lines, 1)
    /\ nNested' = nNested + 1
    /\ nestedCalls' = nestedCalls + ChunkCalls(lines, 1)
    /\ nestedDone' = (IF \E i \in DOMAIN lines : lines[i] = "done"
                      THEN Len(reqLog) ELSE nestedDone)
    /\ UNCHANGED <<pc, accumulatedToolCalls, execLog, reqLog, idx, accumulated,
                   evContent, nOuter, nFrag, sent, nFault>>
    /\ UNCHANGED <<lastMerge, http, clientOpen, lineRead, headers, sessions, srv, env>>
    /\ Step(FALSE)

\* toolReader.read() or errorReader.read() delivers a chunk: its lines up to
\* a [DONE] line are handled, the rest of the chunk is skipped
NestedRead(lines) ==
    /\ pc \in {"readTool", "readErr"}
    /\ res' = res \o ChunkFrames(lines, 1)
    /\ recv' = recv \o ChunkContents(lines, 1)
    /\ nNested' = nNested + 1
    /\ nestedCalls' = nestedCalls + ChunkCalls(lines, 1)
    /\ nestedDone' = (IF \E i \in DOMAIN lines : lines[i] = "done"
                      THEN Len(reqLog) ELSE nestedDone)
    /\ UNCHANGED <<pc, accumulatedToolCalls, execLog, reqLog, idx, accumulated,
                   evContent, nOuter, nFrag, sent, nFault>>
    /\ UNCHANGED <<lastMerge, http, clientOpen, lineRead, headers, sessions, srv, env>>
    /\ Step(FALSE)

\* a chunk of a continuation stream (success or error path)
NestedChunk(lines) ==
    /\ nNested < MaxNested
    /\ NestedRead(lines)

\* toolReader.read() reports done: delete the entry, next entry of the loop
ToolEnd ==
    /\ pc = "readTool"
    /\ Continue(Delete(accumulatedToolCalls, accumulated.id), idx, res, evContent)
    /\ UNCHANGED <<nOuter, nFrag, nNested, recv, sent, nFault>>
    /\ UNCHANGED <<lastMerge, nestedCalls, http, clientOpen, lineRead, nestedDone, headers, sessions, srv, env>>
    /\ Step(TRUE)

\* toolReader.read() rejects
ToolReadFails ==
    /\ pc = "readTool"
    /\ Catch(ReadFailed)
    /\ Fault
    /\ UNCHANGED <<nOuter, nFrag, nNested, recv, sent>>
    /\ UNCHANGED <<lastMerge, nestedCalls, http, clientOpen, lineRead, nestedDone, headers, sessions, srv, env>>
    /\ Step(TRUE)

\* errorReader.read() reports done: next entry of the loop
ErrEnd ==
    /\ pc = "readErr"
    /\ Continue(accumulatedToolCalls, idx, res, evContent)
    /\ UNCHANGED <<nOuter, nFrag, nNested, recv, sent, nFault>>
    /\ UNCHANGED <<lastMerge, nestedCalls, http, clientOpen, lineRead, nestedDone, headers, sessions, srv, env>>
    /\ Step(TRUE)

\* errorReader.read() rejects inside the catch block
ErrReadFails ==
    /\ pc = "readErr"
    /\ Swallow
    /\ Fault
    /\ UNCHANGED <<nOuter, nFrag, nNested, recv, sent>>
    /\ UNCHANGED <<lastMerge, nestedCalls, http, clientOpen, lineRead, nestedDone, headers, sessions, srv, env>>
    /\ Step(TRUE)

\* the fragments of the relay specification: calls delivered in one piece,
\* with well-formed, broken or no argument text, with or without a name
RelayFragments ==
    [id : CallIds, name : {"calc", ""}, arguments : {<<>>, ArgWhole, ArgTail}]

FragmentSeqs == {<<>>} \cup {<<f>> : f \in RelayFragments}

Next ==
    \/ \E m \in Bodies : Request(m)
    \/ \E o \in {"ok", "notok", "throw"} : OuterFetch(o)
    \/ OuterEnd
    \/ OuterReadFails
    \/ OuterDone
    \/ OuterMalformed
    \/ \E hc \in BOOLEAN, tcs \in FragmentSeqs, fin \in FinishReasons : OuterEvent(hc, tcs, fin)
    \/ \E o \in {"ok", "throw"} : ExecReturn(o)
    \/ \E o \in {"ok", "notok", "throw"} : ToolFetch(o)
    \/ \E o \in {"ok", "notok", "throw"} : ErrFetch(o)
    \/ \E lines \in NestedChunks : NestedChunk(lines)
    \/ ToolEnd
    \/ ToolReadFails
    \/ ErrEnd
    \/ ErrReadFails

Spec == Init /\ [][Next]_vars

\* The accumulator specification: the same handler, fed with calls that
\* arrive in fragments (names, pieces of argument text, with and without
\* ids) by an upstream that does not fail and sends no content.
AccFragmentSeqs == {<<f>> : f \in Fragments}

NextAcc ==
    \/ Request("array")
    \/ OuterFetch("ok")
    \/ OuterEnd
    \/ \E tcs \in AccFragmentSeqs \cup {<<>>}, fin \in {"none", "tool_calls"} : AccEvent(tcs, fin)
    \/ \E o \in {"ok", "throw"} : ExecReturn(o)
    \/ ToolFetch("ok")
    \/ ErrFetch("ok")
    \/ ToolEnd
    \/ ErrEnd

SpecAcc == Init /\ [][NextAcc]_vars

\* The fallback specification: the same handler, fed with calls whose
\* entries are named or not, complete or not, and with fragments that carry
\* no id.
FallbackFragments ==
    [id : CallIds, name : {"calc", ""}, arguments : {<<>>, ArgOpen, ArgWhole}]
    \cup [id : {NoId}, name : {""}, arguments : {ArgTail, ArgWhole}]

NextFb ==
    \/ Request("array")
    \/ OuterFetch("ok")
    \/ OuterEnd
    \/ \E f \in FallbackFragments, fin \in {"none", "tool_calls"} : FbEvent(<<f>>, fin)
    \/ \E o \in {"ok", "throw"} : ExecReturn(o)
    \/ ToolFetch("ok")
    \/ ErrFetch("ok")
    \/ ToolEnd
    \/ ErrEnd

SpecFb == Init /\ [][NextFb]_vars

\* The disconnect specification: the relay with a client that may close its
\* connection while the session is in progress.  The handler registers no
\* listener for the close of the request or of the response.
Disconnect ==
    /\ pc \notin {"start", "done"}
    /\ clientOpen
    /\ clientOpen' = FALSE
    /\ UNCHANGED <<pc, accumulatedToolCalls, res, execLog, reqLog, idx, accumulated,
                   evContent, nOuter, nFrag, nNested, recv, sent, nFault, trace,
                   lastMerge, nestedCalls, http, lineRead, nestedDone, headers, sessions, srv, env>>

NextDc ==
    \/ Disconnect
    \/ Request("array")
    \/ OuterFetch("ok")
    \/ OuterEnd
    \/ OuterDone
    \/ \E hc \in BOOLEAN, tcs \in FragmentSeqs, fin \in FinishReasons : OuterEvent(hc, tcs, fin)
    \/ \E o \in {"ok", "throw"} : ExecReturn(o)
    \/ ToolFetch("ok")
    \/ ErrFetch("ok")
    \/ \E lines \in NestedChunks : NestedChunk(lines)
    \/ ToolEnd
    \/ ErrEnd

SpecDc == Init /\ [][NextDc]_vars

\* ------------------------------------ continuation streams of several chunks
\* one call is announced and dispatched; its continuation stream arrives in
\* up to MaxNestedChunks chunks
NestFragment == [id |-> "a1", name |-> "calc", arguments |-> ArgWhole]

\* the event that carries the call and finish_reason "tool_calls"
NestEvent(hasContent) ==
    /\ nFrag < 1
    /\ HandleEvent(hasContent, <<NestFragment>>, "tool_calls")

\* a chunk of the continuation stream
NestedStreamChunk(lines) ==
    /\ nNested < MaxNestedChunks
    /\ NestedRead(lines)

NextNest ==
    \/ Request("array")
    \/ OuterFetch("ok")
    \/ OuterEnd
    \/ OuterDone
    \/ \E hc \in BOOLEAN : NestEvent(hc)
    \/ \E o \in {"ok", "throw"} : ExecReturn(o)
    \/ ToolFetch("ok")
    \/ ErrFetch("ok")
    \/ \E lines \in NestedChunks : NestedStreamChunk(lines)
    \/ ToolEnd
    \/ ErrEnd

SpecNest == Init /\ [][NextNest]_vars

\* ------------------------------------------- credentials of a chat request
\* a chat request arrives with any X-API-Key and Authorization headers, in
\* any configuration of API_KEY and JWT_SECRET; the route is registered
\* without a middleware, its handler runs for every request
ChatRequest(key, auth) ==
    /\ key = "good" => env.apiKey
    /\ auth = "bearerGood" => env.jwtSecret
    /\ ChatCompletions("array", key, auth)

InitChat ==
    /\ SessionInit
    /\ sessions = NoSessions
    /\ srv = SrvInit
    /\ env \in [apiKey : BOOLEAN, jwtSecret : BOOLEAN]

NextChat ==
    \/ \E key \in KeyHeaders, auth \in AuthHeaders : ChatRequest(key, auth)
    \/ OuterFetch("ok")
    \/ OuterEnd
    \/ OuterDone
    \/ \E hc \in BOOLEAN : NestEvent(hc)
    \/ \E o \in {"ok", "throw"} : ExecReturn(o)
    \/ ToolFetch("ok")
    \/ ErrFetch("ok")
    \/ \E lines \in NestedChunks : NestedChunk(lines)
    \/ ToolEnd
    \/ ErrEnd

SpecChat == InitChat /\ [][NextChat]_vars

\* ------------------------------------- actions of /execute, /execute/batch
ErrorBody(m) == [success |-> FALSE, error |-> m, results |-> <<>>]

\* a request arrives: authMiddleware, then the handler up to its await
Arrive(r, route, key, auth, ok, tools, hasId) ==
    /\ srv[r].stage = "none"
    /\ \A q \in 1..(r - 1) : srv[q].stage # "none"
    /\ key = "good" => env.apiKey
    /\ auth = "bearerGood" => env.jwtSecret
    /\ route = "execute" => Len(tools) = 1
    /\ LET a == AuthMiddleware(key, auth, env)
           base == [NoRequest EXCEPT !.route = route, !.key = key, !.auth = auth,
                                     !.hasId = hasId]
       IN srv' = [srv EXCEPT ![r] =
            IF ~a.next
            THEN [base EXCEPT !.stage = "answered", !.status = a.status,
                              !.body = ErrorBody(a.error)]
            ELSE IF ~ok
            THEN [base EXCEPT !.stage = "answered", !.ran = TRUE, !.status = 400,
                              !.body = ErrorBody(IF route = "batch"
                                                 THEN "Tools must be an array"
                                                 ELSE "Missing required fields: tool and parameters")]
            ELSE LET st == StartFrom(tools, hasId, 1, {}, <<>>)
                 IN [base EXCEPT !.stage = "handling", !.ran = TRUE, !.tools = tools,
                                 !.active = st.active, !.p = st.p]]
    /\ UNCHANGED <<sessionVars, sessions, env>>

\* executeWithTimeout settles for tools[i]: the handler resolved, the handler
\* rejected, or the timer fired first; finally activeExecutions.delete
Settle(r, i, o) ==
    /\ srv[r].stage = "handling"
    /\ i \in DOMAIN srv[r].p
    /\ srv[r].p[i].st = "pending"
    /\ srv' = [srv EXCEPT
            ![r].p[i] = CASE o = "ok" -> [st |-> "fulfilled", err |-> "", running |-> FALSE]
                          [] o = "throw" -> Rejected(HandlerFailed)
                          [] o = "timeout" -> [st |-> "rejected", err |-> TimedOut, running |-> TRUE],
            ![r].active = @ \ {ExecutionId(srv[r].hasId, i)}]
    /\ UNCHANGED <<sessionVars, sessions, env>>

\* the handler of a call that timed out comes to its end
HandlerEnds(r, i) ==
    /\ i \in DOMAIN srv[r].p
    /\ srv[r].p[i].st # "pending"
    /\ srv[r].p[i].running
    /\ srv' = [srv EXCEPT ![r].p[i].running = FALSE]
    /\ UNCHANGED <<sessionVars, sessions, env>>

\* results.map((result, index) => ...) of /execute/batch
Responses(tools, p) ==
    [i \in 1..Len(p) |->
        [tool |-> tools[i], success |-> p[i].st = "fulfilled", error |-> p[i].err]]

\* mutant of Respond: the batch waits with Promise.all, so one rejection is
\* the rejection of the batch
RespondFailFast(r) ==
    /\ srv[r].stage = "handling"
    /\ \A i \in DOMAIN srv[r].p : srv[r].p[i].st # "pending"
    /\ LET q == srv[r]
           failed == {i \in DOMAIN q.p : q.p[i].st = "rejected"}
       IN srv' = [srv EXCEPT ![r] =
            IF failed = {}
            THEN [q EXCEPT !.stage = "answered", !.status = 200,
                           !.body = [success |-> TRUE, error |-> "",
                                     results |-> Responses(q.tools, q.p)]]
            ELSE [q EXCEPT !.stage = "answered", !.status = 500,
                           !.body = ErrorBody(q.p[CHOOSE i \in failed : \A j \in failed : i <= j].err)]]
    /\ UNCHANGED <<sessionVars, sessions, env>>

\* the await of the handler resumes: Promise.allSettled of /execute/batch has
\* all its results, or the one call of /execute has settled; res.json
Respond(r) ==
    /\ srv[r].stage = "handling"
    /\ \A i \in DOMAIN srv[r].p : srv[r].p[i].st # "pending"
    /\ LET q == srv[r]
       IN srv' = [srv EXCEPT ![r] =
            IF q.route = "batch"
            THEN [q EXCEPT !.stage = "answered", !.status = 200,
                           !.body = [success |-> TRUE, error |-> "",
                                     results |-> Responses(q.tools, q.p)]]
            ELSE IF q.p[1].st = "fulfilled"
            THEN [q EXCEPT !.stage = "answered", !.status = 200,
                           !.body = [success |-> TRUE, error |-> "", results |-> <<>>]]
            ELSE [q EXCEPT !.stage = "answered", !.status = 500,
                           !.body = ErrorBody(q.p[1].err)]]
    /\ UNCHANGED <<sessionVars, sessions, env>>

\* The server specification: one request to /execute or /execute/batch with
\* any headers, under any configuration of API_KEY and JWT_SECRET.
InitSrv ==
    /\ SessionInit
    /\ sessions = NoSessions
    /\ srv = SrvInit
    /\ env \in [apiKey : BOOLEAN, jwtSecret : BOOLEAN]

NextSrv ==
    \/ \E key \in KeyHeaders, auth \in AuthHeaders, ok \in BOOLEAN,
          tools \in BatchBodies, hasId \in BOOLEAN :
            \/ Arrive(1, "batch", key, auth, ok, tools, hasId)
            \/ Arrive(1, "execute", key, auth, ok, tools, hasId)
    \/ \E i \in 1..(MaxBatch + 1), o \in {"ok", "throw", "timeout"} : Settle(1, i, o)
    \/ \E i \in 1..(MaxBatch + 1) : HandlerEnds(1, i)
    \/ Respond(1)

SpecSrv == InitSrv /\ [][NextSrv]_vars

\* The concurrency specification: authenticated requests to /execute and
\* /execute/batch that overlap in time.
NextConc ==
    \/ \E r \in 1..MaxRequests, tools \in BatchBodies, hasId \in BOOLEAN :
            \/ Arrive(r, "batch", "good", "absent", TRUE, tools, hasId)
            \/ Arrive(r, "execute", "good", "absent", TRUE, tools, hasId)
    \/ \E r \in 1..MaxRequests, i \in 1..(MaxBatch + 1), o \in {"ok", "throw", "timeout"} :
            Settle(r, i, o)
    \/ \E r \in 1..MaxRequests, i \in 1..(MaxBatch + 1) : HandlerEnds(r, i)
    \/ \E r \in 1..MaxRequests : Respond(r)

SpecConc == Init /\ [][NextConc]_vars


\* ------------------------------ sessions whose upstream arrives in chunks
\* Upstream text is a sequence of tokens: the prefix "data: ", the sentinel
\* [DONE], the JSON text of an event, a text JSON.parse rejects, the line
\* break.  A chunk boundary falls between two tokens.
Data == "data: "
DoneText == "[DONE]"
LineBreak == "\n"
NotJson == "x"

\* the call an event text carries in one piece
WholeCall(id) == [id |-> id, name |-> "calc", arguments |-> ArgWhole]

\* the JSON texts of events and what JSON.parse gives for them: an event
\* with delta.content, an event with finish_reason "tool_calls", events
\* with one whole call in delta.tool_calls
EventTexts == {"C", "T", "Fa1", "Fa2"}
Event(tok) ==
    CASE tok = "C" -> [content |-> TRUE, tcs |-> <<>>, fin |-> "none"]
      [] tok = "T" -> [content |-> FALSE, tcs |-> <<>>, fin |-> "tool_calls"]
      [] tok = "Fa1" -> [content |-> FALSE, tcs |-> <<WholeCall("a1")>>, fin |-> "none"]
      [] tok = "Fa2" -> [content |-> FALSE, tcs |-> <<WholeCall("a2")>>, fin |-> "none"]

FirstBreak(t) ==
    IF \E i \in 1..Len(t) : t[i] = LineBreak
    THEN CHOOSE i \in 1..Len(t) : t[i] = LineBreak /\ \A j \in 1..(i - 1) : t[j] # LineBreak
    ELSE 0

RECURSIVE Split(_)
\* t.split("\n"): the pieces between the line breaks, at least one piece
Split(t) ==
    LET i == FirstBreak(t)
    IN IF i = 0 THEN <<t>>
       ELSE <<SubSeq(t, 1, i - 1)>> \o Split(SubSeq(t, i + 1, Len(t)))

\* mutant of DecodeChunk: the text left over from the last read is not put
\* in front of the chunk
DecodeChunkNoCarry(buffer, chunk) ==
    LET pieces == Split(chunk)
    IN [lines |-> SubSeq(pieces, 1, Len(pieces) - 1), buffer |-> pieces[Len(pieces)]]

\* buffer += chunk; lines = buffer.split("\n"); buffer = lines.pop()
DecodeChunk(buffer, chunk) ==
    LET pieces == Split(buffer \o chunk)
    IN [lines |-> SubSeq(pieces, 1, Len(pieces) - 1), buffer |-> pieces[Len(pieces)]]

\* what the line loop makes of a line: skipped (blank), passed over (no data
\* prefix), the sentinel, an event, or a payload JSON.parse rejects
LineKind(line) ==
    IF line = <<>> THEN "blank"
    ELSE IF line[1] # Data THEN "other"
    ELSE IF Tail(line) = <<DoneText>> THEN "done"
    ELSE IF Len(line) = 2 /\ line[2] \in EventTexts THEN "event"
    ELSE "malformed"

RECURSIVE HandleLines(_)
RECURSIVE Sweep(_)
\* `for (const line of lines)` from the first line not yet handled up to the
\* next await, the return of the handler, or the end of the lines
HandleLines(v) ==
    IF v.lines = <<>> THEN [v EXCEPT !.pc = "readOuter"]
    ELSE LET line == Head(v.lines)
             k == Len(v.yielded) - Len(v.lines) + 1
             v1 == [v EXCEPT !.lines = Tail(@)]
         IN CASE LineKind(line) \in {"blank", "other", "malformed"} -> HandleLines(v1)
              [] LineKind(line) = "done" ->
                    [v1 EXCEPT !.res = @ \o <<DoneFrame, EndMark>>, !.pc = "done"]
              [] LineKind(line) = "event" ->
                    LET e == Event(line[2])
                        c == IF e.content THEN <<"outer", k>> ELSE NoContent
                        t1 == MergeAll(v1.map, e.tcs)
                    IN Sweep([v1 EXCEPT
                            !.res = IF e.tcs # <<>> THEN Append(@, ContentFrame(c)) ELSE @,
                            !.map = IF e.fin = "tool_calls" THEN Cleanup(t1) ELSE t1,
                            !.idx = IF e.fin = "tool_calls" THEN 1 ELSE Len(t1) + 1,
                            !.evContent = c])

\* the execution loop from position v.idx up to its next await; when it is
\* over, the regular content of the event and the next line
Sweep(v) ==
    LET l == LoopFrom(v.map, v.idx)
    IN CASE l.kind = "finished" ->
              HandleLines([v EXCEPT
                    !.res = IF v.evContent # NoContent
                            THEN Append(@, ContentFrame(v.evContent)) ELSE @,
                    !.idx = 0, !.accumulated = NoEntry, !.evContent = NoContent])
         [] l.kind = "execute" ->
              [v EXCEPT
                    !.execLog = Append(@, <<v.map[l.idx].name,
                                             JSONParse(v.map[l.idx].arguments).val,
                                             v.map[l.idx].id>>),
                    !.pc = "exec", !.idx = l.idx, !.accumulated = v.map[l.idx]]
         [] l.kind = "parseError" ->
              [v EXCEPT
                    !.map = Delete(@, v.map[l.idx].id),
                    !.reqLog = Append(@, ContRequest(v.map[l.idx], FailureContent(InvalidJson))),
                    !.pc = "fetchErr", !.idx = l.idx, !.accumulated = v.map[l.idx]]

\* executor.execute settles: the summary frame and the success continuation
\* request, or the catch block with its delete and the error continuation
AfterExec(v, o) ==
    IF o = "ok"
    THEN [v EXCEPT !.res = Append(@, ContentFrame(SummaryText(v.accumulated.name))),
                   !.reqLog = Append(@, ContRequest(v.accumulated,
                                                    ResultContent(v.accumulated.name))),
                   !.outs = Append(@, o),
                   !.pc = "fetchTool"]
    ELSE [v EXCEPT !.map = Delete(@, v.accumulated.id),
                   !.reqLog = Append(@, ContRequest(v.accumulated, FailureContent(ToolError))),
                   !.outs = Append(@, o),
                   !.pc = "fetchErr"]

\* a fetch resolves with an ok response
AfterFetch(v) ==
    [v EXCEPT !.pc = CASE v.pc = "fetchOuter" -> "readOuter"
                       [] v.pc = "fetchTool" -> "readTool"
                       [] v.pc = "fetchErr" -> "readErr"]

\* the continuation stream, which carried no line, ends: on the success path
\* the entry is deleted; the execution loop goes on
AfterStream(v) ==
    IF v.pc = "readTool"
    THEN Sweep([v EXCEPT !.map = Delete(@, v.accumulated.id)])
    ELSE Sweep(v)

\* mutant of OwnMap: one Map at module level serves every request
OwnMapShared(s) == 1

\* the Map a session works on: `const accumulatedToolCalls = new Map()` in
\* the handler gives every request its own
OwnMap(s) == s

\* the session s with the Map it works on
View(ss, s) == [ss[s] EXCEPT !.map = ss[OwnMap(s)].map]

\* the sessions after session s went on to v
Put(ss, s, v) ==
    [q \in DOMAIN ss |->
        IF q = s THEN [v EXCEPT !.map = IF OwnMap(s) = s THEN v.map ELSE ss[s].map]
        ELSE IF q = OwnMap(s) THEN [ss[q] EXCEPT !.map = v.map]
        ELSE ss[q]]

\* request entry of session s: the Map, writeHead, await fetch
Open(s) ==
    /\ sessions[s].pc = "start"
    /\ sessions' = Put(sessions, s, [View(sessions, s) EXCEPT !.pc = "fetchOuter"])
    /\ UNCHANGED <<sessionVars, srv, env>>

\* a fetch of session s resolves
Fetched(s) ==
    /\ sessions[s].pc \in {"fetchOuter", "fetchTool", "fetchErr"}
    /\ sessions' = Put(sessions, s, AfterFetch(View(sessions, s)))
    /\ UNCHANGED <<sessionVars, srv, env>>

\* reader.read() of session s delivers the next n tokens of its upstream text
Read(s, n) ==
    /\ sessions[s].pc = "readOuter"
    /\ n \in 1..Len(sessions[s].upstream)
    /\ LET v == View(sessions, s)
           chunk == SubSeq(v.upstream, 1, n)
           d == DecodeChunk(v.buffer, chunk)
       IN sessions' = Put(sessions, s, HandleLines([v EXCEPT
                !.upstream = SubSeq(@, n + 1, Len(@)),
                !.consumed = @ \o chunk,
                !.carried = @ \/ v.buffer # <<>>,
                !.buffer = d.buffer,
                !.lines = d.lines,
                !.yielded = @ \o d.lines]))
    /\ UNCHANGED <<sessionVars, srv, env>>

\* mutant of ReadDone: the text left in the buffer is handled as a last line
\* before the handler returns
ReadDoneFlush(s) ==
    /\ sessions[s].pc = "readOuter"
    /\ sessions[s].upstream = <<>>
    /\ LET v == View(sessions, s)
       IN sessions' = Put(sessions, s,
              IF v.buffer = <<>> THEN [v EXCEPT !.pc = "done"]
              ELSE HandleLines([v EXCEPT !.buffer = <<>>, !.lines = <<v.buffer>>,
                                         !.yielded = @ \o <<v.buffer>>]))
    /\ UNCHANGED <<sessionVars, srv, env>>

\* reader.read() of session s reports done: break, the handler returns
ReadDone(s) ==
    /\ sessions[s].pc = "readOuter"
    /\ sessions[s].upstream = <<>>
    /\ sessions' = Put(sessions, s, [View(sessions, s) EXCEPT !.pc = "done"])
    /\ UNCHANGED <<sessionVars, srv, env>>

\* executor.execute of session s settles
Executed(s, o) ==
    /\ sessions[s].pc = "exec"
    /\ sessions' = Put(sessions, s, AfterExec(View(sessions, s), o))
    /\ UNCHANGED <<sessionVars, srv, env>>

\* the continuation stream of session s ends
StreamEnds(s) ==
    /\ sessions[s].pc \in {"readTool", "readErr"}
    /\ sessions' = Put(sessions, s, AfterStream(View(sessions, s)))
    /\ UNCHANGED <<sessionVars, srv, env>>

\* The decoder specification: one session whose upstream text, any text of
\* at most MaxLines complete lines and a last piece without line break, is
\* delivered in chunks cut at any token.
LineTexts ==
    {<<>>, <<NotJson>>, <<Data, NotJson>>, <<Data, "C">>, <<Data, "Fa1">>,
     <<Data, "T">>, <<Data, DoneText>>}

RECURSIVE Join(_)
Join(ls) == IF ls = <<>> THEN <<>> ELSE Head(ls) \o <<LineBreak>> \o Join(Tail(ls))

Texts ==
    {Join(ls) \o last : ls \in UNION {[1..n -> LineTexts] : n \in 0..MaxLines},
                        last \in LineTexts}

InitDec ==
    /\ SessionInit
    /\ srv = SrvInit
    /\ env = [apiKey |-> TRUE, jwtSecret |-> TRUE]
    /\ \E t \in Texts : sessions = [NoSessions EXCEPT ![1].upstream = t]

NextDec ==
    \/ Open(1)
    \/ Fetched(1)
    \/ \E n \in 1..(3 * MaxLines + 2) : Read(1, n)
    \/ ReadDone(1)
    \/ \E o \in {"ok", "throw"} : Executed(1, o)
    \/ StreamEnds(1)

SpecDec == InitDec /\ [][NextDec]_vars

\* The isolation specification: MaxSessions sessions in progress at the same
\* time, each with an upstream that sends one call, the finish event and a
\* content event, delivered in chunks cut at any token; the steps of the
\* sessions interleave at their awaits.
SessionCall(s) == IF s = 1 THEN "Fa1" ELSE "Fa2"
SessionText(s) ==
    <<Data, SessionCall(s), LineBreak, Data, "T", LineBreak, Data, "C", LineBreak>>

InitIso ==
    /\ SessionInit
    /\ srv = SrvInit
    /\ env = [apiKey |-> TRUE, jwtSecret |-> TRUE]
    /\ sessions = [s \in 1..MaxSessions |-> [NoSession EXCEPT !.upstream = SessionText(s)]]

NextIso ==
    \E s \in 1..MaxSessions :
        \/ Open(s)
        \/ Fetched(s)
        \/ \E n \in 1..Len(SessionText(s)) : Read(s, n)
        \/ ReadDone(s)
        \/ \E o \in {"ok", "throw"} : Executed(s, o)
        \/ StreamEnds(s)

SpecIso == InitIso /\ [][NextIso]_vars


\* ---------------------------------------------------------------- claims
Count(seq, kind) == Cardinality({i \in DOMAIN seq : seq[i].k = kind})
Dispatching == pc \in {"exec", "fetchTool", "readTool", "fetchErr", "readErr"}
LastLine == IF \E i \in DOMAIN trace : trace[i].e = "line"
            THEN CHOOSE i \in DOMAIN trace :
                    trace[i].e = "line" /\ \A j \in (i + 1)..Len(trace) : trace[j].e # "line"
            ELSE 0
\* executor calls for id since the outer line being handled was read
ExecsThisLine(id) ==
    Cardinality({i \in (LastLine + 1)..Len(trace) : trace[i].e = "execute" /\ trace[i].id = id})
IsNestedOf(frame, n) ==
    frame.k = "content" /\ Len(frame.v) = 3 /\ frame.v[1] = "nested" /\ frame.v[2] = n

\* C1: when the handler of a session whose request was accepted and whose
\* upstream did not fail has returned, the client has received exactly one
\* `data: [DONE]` frame, whatever lines the outer stream delivered.
C1_ExactlyOneDone ==
    (pc = "done" /\ nFault = 0 /\ Count(res, "json400") = 0) => Count(res, "done") = 1

\* C2: the response is ended at most once and nothing is written after it:
\* an end mark in the client log is the last element of the log.
C2_EndIsLast == \A i \in DOMAIN res : res[i].k = "end" => i = Len(res)

\* C2 witness: a session that dispatched a tool call and was then closed by
\* the outer [DONE]
C2_Witness ==
    /\ pc = "done"
    /\ reqLog # <<>>
    /\ Len(res) >= 2
    /\ res[Len(res)] = EndMark
    /\ res[Len(res) - 1] = DoneFrame

\* C3: the executor is invoked at most once for any call id in a session.
C3_NoDoubleExecution ==
    \A i, j \in DOMAIN execLog : execLog[i][3] = execLog[j][3] => i = j

\* C4: after a continuation request was issued, no executor call and no
\* further continuation request happens before that continuation stream has
\* terminated (its end was read, or it failed), and none of its content
\* frames is written once the next call has started.
C4_Ordering ==
    \A q, p \in DOMAIN trace :
        (q < p /\ trace[q].e = "request" /\ trace[p].e \in {"execute", "request"}) =>
            /\ \E c \in (q + 1)..(p - 1) : trace[c].e = "closed" /\ trace[c].n = trace[q].n
            /\ \A w \in (p + 1)..Len(trace) :
                   trace[w].e = "write" => ~IsNestedOf(res[trace[w].n], trace[q].n)

\* C4 witness: one finish event dispatched a1 and then a2, and a1's
\* continuation stream delivered content
C4_Witness ==
    /\ pc = "exec"
    /\ accumulated.id = "a2"
    /\ \E q \in (LastLine + 1)..Len(trace) : trace[q].e = "request" /\ trace[q].id = "a1"
    /\ \E i \in DOMAIN res : IsNestedOf(res[i], 1)


RECURSIVE ConcatAll(_)
ConcatAll(ss) == IF ss = <<>> THEN <<>> ELSE Head(ss) \o ConcatAll(Tail(ss))

\* the value JSON.parse gives for {"x":4}
XEq4 == <<"{", "key:x", "num:4", "}">>

\* the names of the tools whose calls upstream splits into the pieces Names
ToolNames == {"calc", "calculate"}

\* C5: fragmentation invariance as stated: an entry all of whose fragments
\* carried its id, and whose name pieces join to a tool name, holds the name
\* and the arguments that one fragment with the whole name (the name pieces
\* joined) and the whole argument text (the argument pieces joined) would
\* have produced.
C5_FragmentationInvariance ==
    \A i \in DOMAIN accumulatedToolCalls :
        LET e == accumulatedToolCalls[i]
            h == sent[e.id]
            one == Merge(<<>>, [id |-> e.id, name |-> Flat(h.names),
                                arguments |-> ConcatAll(h.args)])[1]
        IN (~h.noid /\ Flat(h.names) \in ToolNames) =>
               e.name = one.name /\ e.arguments = one.arguments

\* C5 amended: the argument text may be split in any way; the name must
\* arrive whole (every fragment that carries a name carries the same, full
\* name), because a later name replaces the earlier one.
C5_ArgumentsInvariance ==
    \A i \in DOMAIN accumulatedToolCalls :
        LET e == accumulatedToolCalls[i]
            h == sent[e.id]
        IN ~h.noid =>
            /\ e.arguments = ConcatAll(h.args)
            /\ h.names = <<>> => e.name = ""
            /\ (h.names # <<>> /\ \A k \in DOMAIN h.names : h.names[k] = h.names[1])
                   => e.name = h.names[1]

\* C5 witness: an entry whose argument text arrived in two pieces
C5_Witness ==
    \E i \in DOMAIN accumulatedToolCalls :
        LET e == accumulatedToolCalls[i]
        IN /\ e.name = "calc"
           /\ e.arguments = ArgOpen \o ArgTail
           /\ sent[e.id] = [names |-> <<"calc">>, args |-> <<ArgOpen, ArgTail>>, noid |-> FALSE]

\* C6: the example as stated: fragments with one id carrying the name calc
\* and the argument pieces {"x" and ":4}, when dispatched by the finish
\* event, make exactly one executor call calc({x:4}).
C6_ExampleAsStated ==
    (/\ Dispatching
     /\ sent[accumulated.id] =
            [names |-> <<"calc">>, args |-> <<ArgOpen, ArgQuoteTail>>, noid |-> FALSE])
    => /\ ExecsThisLine(accumulated.id) = 1
       /\ execLog # <<>>
       /\ execLog[Len(execLog)] = <<"calc", XEq4, accumulated.id>>

\* C6 amended: when the execution loop of a finish event reaches an entry
\* all of whose fragments carried its id, whose name is set and whose
\* argument pieces, joined in arrival order, are well-formed JSON, the
\* executor is called exactly once, with the entry's name, the parse of the
\* joined text and the id; the pieces {"x" and :4} give calc({x:4}), while
\* the pieces {"x" and ":4} join to {"x"":4}, which JSON.parse rejects, so
\* the executor is not called for them.
C6_DispatchOnce ==
    (Dispatching /\ ~sent[accumulated.id].noid /\ sent[accumulated.id].names # <<>>) =>
        LET h == sent[accumulated.id]
            text == ConcatAll(h.args)
        IN /\ JSONParse(text).ok =>
                /\ ExecsThisLine(accumulated.id) = 1
                /\ execLog[Len(execLog)] =
                       <<h.names[Len(h.names)], JSONParse(text).val, accumulated.id>>
           /\ (h.names = <<"calc">> /\ h.args = <<ArgOpen, ArgTail>>) =>
                execLog[Len(execLog)] = <<"calc", XEq4, accumulated.id>>
           /\ h.args = <<ArgOpen, ArgQuoteTail>> => ExecsThisLine(accumulated.id) = 0

\* C6 witness: the executor is being awaited for calc({x:4}), accumulated
\* from a name fragment and two argument fragments
C6_Witness ==
    /\ pc = "exec"
    /\ sent[accumulated.id] = [names |-> <<"calc">>, args |-> <<ArgOpen, ArgTail>>, noid |-> FALSE]
    /\ execLog[Len(execLog)] = <<"calc", XEq4, accumulated.id>>
    /\ ExecsThisLine(accumulated.id) = 1


\* C7: a failure of the executor issues the failure-shaped continuation
\* request for the call (original messages, assistant turn with the call,
\* tool turn with {"success":false,"error":message}) and writes nothing to
\* the client; while the error continuation is fetched and read the handler
\* writes only content frames and does not finish.
C7_ToolFailureContinues ==
    [][ /\ (pc = "exec" /\ pc' # "fetchTool") =>
              /\ pc' = "fetchErr"
              /\ res' = res
              /\ Len(reqLog') = Len(reqLog) + 1
              /\ reqLog'[Len(reqLog')].messages =
                    OrigMessages \o
                    << [role |-> "assistant", content |-> "",
                        tool_calls |-> << [id |-> execLog[Len(execLog)][3],
                                           name |-> execLog[Len(execLog)][1],
                                           arguments |-> accumulated.arguments] >>],
                       [role |-> "tool", tool_call_id |-> execLog[Len(execLog)][3],
                        content |-> <<"failure", ToolError>>] >>
        /\ pc \in {"fetchErr", "readErr"} =>
              /\ pc' \in {"fetchErr", "readErr", "exec", "readOuter"}
              /\ Len(res') >= Len(res)
              /\ SubSeq(res', 1, Len(res)) = res
              /\ \A i \in (Len(res) + 1)..Len(res') : res'[i].k = "content"
      ]_vars

\* C7 witness: after a failed execution and its error continuation the
\* handler is back at the outer read with the client connection open
C7_Witness ==
    /\ pc = "readOuter"
    /\ reqLog # <<>>
    /\ reqLog[Len(reqLog)].messages[3].content = FailureContent(ToolError)
    /\ Count(res, "end") = 0
    /\ Count(res, "error") = 0

\* C8: the executor is never awaited for argument text that does not parse;
\* the execution loop passes over no entry that has argument text; and an
\* entry with non-empty, ill-formed argument text that is being dispatched
\* has had no executor call, has its failure-shaped continuation request with
\* the Invalid JSON message, and the client connection is still open.
C8_ParseFailureReported ==
    /\ pc = "exec" => JSONParse(accumulated.arguments).ok
    /\ Dispatching =>
          \A j \in 1..(idx - 1) :
              j <= Len(accumulatedToolCalls) => accumulatedToolCalls[j].arguments = <<>>
    /\ (Dispatching /\ accumulated.arguments # <<>> /\ ~JSONParse(accumulated.arguments).ok) =>
          /\ pc \in {"fetchErr", "readErr"}
          /\ ExecsThisLine(accumulated.id) = 0
          /\ reqLog # <<>>
          /\ reqLog[Len(reqLog)].messages[3] =
                [role |-> "tool", tool_call_id |-> accumulated.id,
                 content |-> <<"failure", InvalidJson>>]
          /\ Count(res, "error") = 0
          /\ Count(res, "done") = 0
          /\ Count(res, "end") = 0

\* C8 witness: the error continuation of a call with the argument text :4}
\* is being fetched
C8_Witness ==
    /\ pc = "fetchErr"
    /\ accumulated.arguments = ArgTail
    /\ reqLog[Len(reqLog)].messages[3].content = FailureContent(InvalidJson)
    /\ execLog = <<>>

\* C9: every content delta received is forwarded as exactly one frame: no
\* frame without content is written, no content is written twice, and when
\* the handler is at an outer read or has returned every content delta
\* received so far is in the client log.
C9_ContentExactlyOnce ==
    /\ \A i \in DOMAIN res : res[i].k = "content" => res[i].v # NoContent
    /\ \A i, j \in DOMAIN res :
          (i < j /\ res[i].k = "content" /\ res[j].k = "content") => res[i].v # res[j].v
    /\ pc \in {"readOuter", "done"} =>
          \A k \in DOMAIN recv : \E i \in DOMAIN res : res[i] = ContentFrame(recv[k])

\* C10: a session whose outer stream carried no tool_calls fragment and was
\* ended by [DONE] has written exactly the content deltas received, in
\* order, one frame each, then one [DONE]; no executor call, no continuation.
C10_ContentOnly ==
    (pc = "done" /\ nFrag = 0 /\ Len(res) >= 2 /\ res[Len(res) - 1] = DoneFrame) =>
        /\ res = [i \in 1..Len(recv) |-> ContentFrame(recv[i])] \o <<DoneFrame, EndMark>>
        /\ execLog = <<>>
        /\ reqLog = <<>>

\* C10 witness: two content deltas, then [DONE]
C10_Witness ==
    /\ pc = "done"
    /\ nFrag = 0
    /\ res = <<ContentFrame(<<"outer", 1>>), ContentFrame(<<"outer", 2>>), DoneFrame, EndMark>>


\* the entries of a table that are named and incomplete: the name is set and
\* the argument text is empty or does not end with }
Candidates(tbl) ==
    {i \in DOMAIN tbl :
        tbl[i].name # "" /\ (tbl[i].arguments = <<>> \/ tbl[i].arguments[Len(tbl[i].arguments)] # "}")}

\* the last delta merged was one fragment without an id
NoIdMerge == Len(lastMerge.tcs) = 1 /\ lastMerge.tcs[1].id = NoId

\* C11: a fragment without an id is appended to the entry when exactly one
\* entry is named and incomplete; with no such entry or with more than one
\* the table is left as it was; the session does not fail.
C11_FallbackOnlyWhenUnambiguous ==
    NoIdMerge =>
        LET b == lastMerge.before
            f == lastMerge.tcs[1]
        IN /\ IF Cardinality(Candidates(b)) = 1
              THEN \E i \in Candidates(b) :
                      lastMerge.after = [b EXCEPT ![i].arguments = @ \o f.arguments]
              ELSE lastMerge.after = b
           /\ Count(res, "error") = 0
           /\ Count(res, "end") = 0

C13_OuterFailureEndsSession ==
    [][ (pc = "fetchOuter" /\ pc' # "readOuter") =>
            /\ pc' = "done"
            /\ \E m \in {"LM Studio error", "fetch failed"} :
                  res' = << [k |-> "error", v |-> <<m>>], [k |-> "end", v |-> <<>>] >>
            /\ execLog' = <<>>
            /\ reqLog' = <<>>
            /\ nOuter' = 0
      ]_vars

\* C13 witness: the outer upstream request answered with a non-success
\* status and the session is over
C13_Witness ==
    /\ pc = "done"
    /\ res = <<ErrorFrame(LMStudioError), EndMark>>
    /\ nFault = 1

\* C14: when a continuation request (after a tool success or after a tool
\* failure) is rejected or answers with a non-success status, the handler
\* writes an error frame, ends the response and returns.
C14_ContinuationFailureFatal ==
    [][ (pc \in {"fetchTool", "fetchErr"} /\ nFault' # nFault) =>
            /\ pc' = "done"
            /\ Len(res') = Len(res) + 2
            /\ res'[Len(res') - 1].k = "error"
            /\ res'[Len(res')].k = "end"
      ]_vars


\* C16: a tool call that a continuation stream delivered (tool_calls delta
\* with finish_reason "tool_calls") has been executed and continued with a
\* further upstream request by the time the handler is back at the outer
\* stream or has returned.
C16_NestedCallsDispatched ==
    (pc \in {"readOuter", "done"} /\ nestedCalls > 0) =>
        /\ \E i \in DOMAIN execLog : execLog[i][3] = NestedCall.id
        /\ \E i \in DOMAIN reqLog : reqLog[i].messages[3].tool_call_id = NestedCall.id


\* C15: a request whose body has no messages, or messages that is not an
\* array, is answered 400 with a JSON error and the handler returns: the
\* event-stream head is not written, no upstream request is made, no line is
\* read, no tool executed.
C15_InvalidRequestRejected ==
    (http.messages \notin {"none", "array"}) =>
        /\ pc = "done"
        /\ http.status = "400 application/json"
        /\ res = << [k |-> "json400", v |-> <<"Messages array is required">>],
                    [k |-> "end", v |-> <<>>] >>
        /\ execLog = <<>>
        /\ reqLog = <<>>
        /\ nOuter = 0
        /\ nFault = 0
        /\ \A i \in DOMAIN trace : trace[i].e = "write"

\* C15 witness: a request with an object for messages was answered 400
C15_Witness ==
    /\ http = [messages |-> "object", status |-> "400 application/json"]
    /\ pc = "done"
    /\ Len(res) = 2

\* C17: after the client has disconnected the session reads no further
\* upstream line or chunk, executes no tool and issues no continuation
\* request.
C17_DisconnectStopsSession ==
    [][ ~clientOpen =>
            /\ nOuter' = nOuter
            /\ nNested' = nNested
            /\ execLog' = execLog
            /\ reqLog' = reqLog
      ]_vars


\* the handlers of request r that are executing
Running(r) == {i \in DOMAIN srv[r].p : srv[r].p[i].running}

RECURSIVE RunningUpTo(_)
\* the number of handlers executing in requests 1..r
RunningUpTo(r) == IF r = 0 THEN 0 ELSE Cardinality(Running(r)) + RunningUpTo(r - 1)

\* C18: at any time at most MAX_CONCURRENT_TOOLS handlers are executing,
\* over all requests and within one batch, with or without a requestId.
C18_ConcurrencyLimit == RunningUpTo(MaxRequests) <= MaxConcurrentTools

\* C19: the answer of /execute/batch to an accepted request whose tools is
\* an array of k tools is 200 with
\* success true and k results, result i naming tools[i]; result i has
\* success false and the error of its own call exactly when that call
\* failed, whatever became of the other calls.
C19_BatchResults ==
    \A r \in 1..MaxRequests :
        (srv[r].route = "batch" /\ srv[r].stage = "answered" /\ srv[r].ran
            /\ srv[r].status # 400) =>
            /\ srv[r].status = 200
            /\ srv[r].body.success
            /\ Len(srv[r].body.results) = Len(srv[r].tools)
            /\ Len(srv[r].p) = Len(srv[r].tools)
            /\ \A i \in DOMAIN srv[r].tools :
                  LET x == srv[r].body.results[i]
                  IN /\ x.tool = srv[r].tools[i]
                     /\ x.success = (srv[r].p[i].st = "fulfilled")
                     /\ x.success => x.error = ""
                     /\ ~x.success => x.error = srv[r].p[i].err /\ x.error # ""
                     /\ srv[r].tools[i] \notin Registry => x.error = "Tool not found"

\* C19 witness: a batch of three tools, the second of which is not in the
\* registry, was answered with success, failure, success
C19_Witness ==
    /\ srv[1].stage = "answered"
    /\ srv[1].tools = <<"calc", "nope", "calc">>
    /\ srv[1].status = 200
    /\ Len(srv[1].body.results) = 3
    /\ srv[1].body.results[1].success
    /\ ~srv[1].body.results[2].success
    /\ srv[1].body.results[3].success

\* C20: the handler has run only for a request whose X-API-Key equals
\* API_KEY or whose Bearer token verifies; every other request is answered
\* 401, or 500 when the secret it needs is not configured, and its handler
\* has not run; a wrong X-API-Key is rejected even with a valid Bearer token.
C20_HandlersBehindAuth ==
    \A r \in 1..MaxRequests :
        srv[r].stage # "none" =>
            /\ srv[r].ran => (srv[r].key = "good" \/ srv[r].auth = "bearerGood")
            /\ ~srv[r].ran =>
                  /\ srv[r].stage = "answered"
                  /\ srv[r].status \in {401, 500}
                  /\ srv[r].p = <<>>
                  /\ srv[r].status = 500 => (~env.apiKey \/ ~env.jwtSecret)
            /\ srv[r].key = "bad" => ~srv[r].ran
            /\ (srv[r].key = "good" \/ (srv[r].key \in {"absent", "empty"} /\ srv[r].auth = "bearerGood"))
                  => srv[r].ran

\* C20 witness: a request with a wrong X-API-Key and a valid Bearer token
\* was answered 401
C20_Witness ==
    /\ srv[1].stage = "answered"
    /\ srv[1].key = "bad"
    /\ srv[1].auth = "bearerGood"
    /\ srv[1].status = 401
    /\ ~srv[1].ran


\* the line being handled, or handled last, carried finish_reason "tool_calls"
SweepLine == lineRead.kind = "event" /\ lineRead.fin = "tool_calls"

\* C21: when the handling of an event with finish_reason "tool_calls" is
\* over and the handler reads on, every entry without a name has been deleted
\* and every entry with a name has been dispatched (and so removed): the
\* table holds no entry that the sweep passed over.
C21_SweepDispatchesAll ==
    (pc = "readOuter" /\ SweepLine /\ nFault = 0) => accumulatedToolCalls = <<>>

\* C22: when the handler leaves the dispatch of a call, to dispatch the next
\* entry of the loop or to read the next outer line, the call's entry is no
\* longer in the table, whether the dispatch ended in success, in a parse
\* failure, in an executor failure or in a continuation failure.
C22_EntryDeletedAfterDispatch ==
    [][ (Dispatching /\ accumulated' # accumulated) =>
            ~Has(accumulatedToolCalls', accumulated.id) ]_vars

\* C22 witness: the second call of a sweep is at the executor after the first
\* call's executor failed and its error continuation was read to its end;
\* the first call's entry is gone
C22_Witness ==
    /\ pc = "exec"
    /\ Len(execLog) = 2
    /\ ExecsThisLine(execLog[1][3]) = 1
    /\ Len(reqLog) = 1
    /\ reqLog[1].messages[3].content = FailureContent(ToolError)
    /\ ~Has(accumulatedToolCalls, execLog[1][3])
    /\ accumulated.id # execLog[1][3]

\* C23: while the executor is awaited for a call, and while that call's
\* success continuation is fetched and streamed, the table does not contain
\* the call's id.
C23_RemovedBeforeExecution ==
    pc \in {"exec", "fetchTool", "readTool"} => ~Has(accumulatedToolCalls, accumulated.id)

\* continuation requests for id since the outer line being handled was read
RequestsThisLine(id) ==
    Cardinality({i \in (LastLine + 1)..Len(trace) : trace[i].e = "request" /\ trace[i].id = id})

\* C24: for a call dispatched by a sweep at most one continuation request
\* goes upstream, the success-shaped one or the failure-shaped one.
C24_OneContinuationPerCall ==
    \A id \in CallIds : RequestsThisLine(id) <= 1

\* C25: when the executor returns a result for a call, the handler writes
\* the content frame "Tool <name> executed successfully. Result: <json>" and
\* then issues one continuation request whose messages are the original
\* messages, the assistant turn with tool_calls = [the call's entry] and the
\* tool turn with the call's id and the JSON of the result.
C25_SummaryThenContinuation ==
    [][ (pc = "exec" /\ pc' = "fetchTool") =>
            /\ accumulated = accumulatedToolCalls[IndexOf(accumulatedToolCalls, accumulated.id)]
            /\ res' = Append(res, ContentFrame(SummaryText(accumulated.name)))
            /\ reqLog' = Append(reqLog,
                  [messages |-> OrigMessages \o
                      << [role |-> "assistant", content |-> "", tool_calls |-> <<accumulated>>],
                         [role |-> "tool", tool_call_id |-> accumulated.id,
                          content |-> ResultContent(accumulated.name)] >>])
            /\ trace' = trace \o <<Ev("write", "", Len(res')),
                                    Ev("request", accumulated.id, Len(reqLog'))>> ]_vars

\* C25 witness: the success continuation of calc is being fetched; the last
\* frame written is the summary and the last request carries the result
C25_Witness ==
    /\ pc = "fetchTool"
    /\ accumulated.name = "calc"
    /\ res[Len(res)] = ContentFrame(SummaryText("calc"))
    /\ reqLog[Len(reqLog)].messages[3] =
            [role |-> "tool", tool_call_id |-> accumulated.id, content |-> ResultContent("calc")]
    /\ trace[Len(trace)] = Ev("request", accumulated.id, Len(reqLog))
    /\ trace[Len(trace) - 1] = Ev("write", "", Len(res))

\* C26: handling an event whose finish_reason is absent or is not
\* "tool_calls" executes no tool, issues no continuation request and deletes
\* no entry of the table, whatever the table holds; the handler goes on to
\* the next read.
C26_NoDispatchWithoutToolCallsFinish ==
    [][ (nOuter' # nOuter /\ lineRead'.kind = "event" /\ lineRead'.fin # "tool_calls") =>
            /\ execLog' = execLog
            /\ reqLog' = reqLog
            /\ \A i \in DOMAIN accumulatedToolCalls :
                    Has(accumulatedToolCalls', accumulatedToolCalls[i].id)
            /\ pc' = "readOuter" ]_vars

\* C26 witness: an event with finish_reason "stop" was handled while the
\* table held a nameless entry and a call ready for execution; both are
\* still there and nothing was executed
C26_Witness ==
    /\ pc = "readOuter"
    /\ lineRead = [kind |-> "event", fin |-> "stop"]
    /\ Len(accumulatedToolCalls) = 2
    /\ \E i, j \in DOMAIN accumulatedToolCalls :
            /\ accumulatedToolCalls[i].name = ""
            /\ accumulatedToolCalls[j].name = "calc"
            /\ accumulatedToolCalls[j].arguments = ArgWhole
    /\ execLog = <<>>
    /\ reqLog = <<>>

\* C27: a line that is dropped (its payload is not [DONE] and JSON.parse
\* rejects it) changes neither the table nor what the client received,
\* executes nothing, sends nothing upstream and leaves the handler at its
\* next read; the line after it is handled as usual: a [DONE] line that
\* follows is answered with the sentinel and the end of the response, an
\* event that follows is merged into the table as it was and its content is
\* relayed.
C27_MalformedLineDropped ==
    [][ /\ (nOuter' # nOuter /\ lineRead'.kind = "malformed") =>
              /\ pc' = "readOuter"
              /\ UNCHANGED <<accumulatedToolCalls, res, execLog, reqLog, idx,
                             accumulated, evContent, recv, sent>>
        /\ (nOuter' # nOuter /\ lineRead.kind = "malformed" /\ lineRead'.kind = "done") =>
              /\ res' = res \o <<DoneFrame, EndMark>>
              /\ pc' = "done"
        /\ (nOuter' # nOuter /\ lineRead.kind = "malformed" /\ lineRead'.kind = "event") =>
              /\ lastMerge' # lastMerge =>
                    lastMerge'.before = accumulatedToolCalls
              /\ (recv' # recv /\ pc' = "readOuter") =>
                    ContentFrame(recv'[Len(recv')]) = res'[Len(res')] ]_vars

\* C27 witness: a dropped line was read while the table held an entry and
\* the client had received a frame; the handler is at its next read
C27_Witness ==
    /\ pc = "readOuter"
    /\ lineRead.kind = "malformed"
    /\ accumulatedToolCalls # <<>>
    /\ res # <<>>
    /\ nOuter < MaxOuter

IsPrefix(a, b) == Len(a) <= Len(b) /\ SubSeq(b, 1, Len(a)) = a

\* C30: as long as an entry is in the table its argument text only grows at
\* its end: after every step the text it had before is a prefix of the text
\* it has; the text is at all times the concatenation, in arrival order, of
\* the argument fragments attached to the entry (by its id or by the
\* missing-id fallback), and that is the text a dispatch takes.
C30_ArgumentsAppendOnly ==
    [][ /\ \A i \in DOMAIN accumulatedToolCalls :
              LET e == accumulatedToolCalls[i]
              IN Has(accumulatedToolCalls', e.id) =>
                    IsPrefix(e.arguments,
                             accumulatedToolCalls'[IndexOf(accumulatedToolCalls', e.id)].arguments)
        /\ \A i \in DOMAIN accumulatedToolCalls' :
              accumulatedToolCalls'[i].arguments =
                    ConcatAll(sent'[accumulatedToolCalls'[i].id].args)
        /\ (accumulated' # accumulated /\ accumulated' # NoEntry) =>
              accumulated'.arguments = ConcatAll(sent'[accumulated'.id].args) ]_vars

\* C30 witness: the executor is awaited for an entry whose argument text
\* came in two fragments, the first under its id, the second without an id
C30_Witness ==
    /\ pc = "exec"
    /\ sent[accumulated.id].args = <<ArgOpen, ArgTail>>
    /\ sent[accumulated.id].noid
    /\ accumulated.arguments = ArgOpen \o ArgTail
    /\ execLog[Len(execLog)] = <<accumulated.name, XEq4, accumulated.id>>

RECURSIVE RunOn(_, _)
\* a session carried over its awaits with the executor outcomes outs
RunOn(v, outs) ==
    IF v.pc \in {"fetchTool", "fetchErr"} THEN RunOn(AfterFetch(v), outs)
    ELSE IF v.pc \in {"readTool", "readErr"} THEN RunOn(AfterStream(v), outs)
    ELSE IF v.pc = "exec" /\ outs # <<>> THEN RunOn(AfterExec(v, Head(outs)), Tail(outs))
    ELSE v

\* a session that is alone and receives text in a single chunk
InOneChunk(text, outs) ==
    LET d == DecodeChunk(<<>>, text)
    IN RunOn(HandleLines([NoSession EXCEPT !.pc = "readOuter", !.consumed = text,
                                           !.buffer = d.buffer, !.lines = d.lines,
                                           !.yielded = d.lines]), outs)

\* what a session has done: the text kept back, the lines split off, the
\* Map, the frames written, the executor calls, the continuation requests
Outcome(v) == <<v.buffer, v.yielded, v.map, v.res, v.execLog, v.reqLog>>

\* C28: however the upstream text of a session is cut into chunks, the lines
\* split off so far are the complete lines of the text read so far, each
\* once and in order, and the text after the last line break is kept back;
\* the lines still to be handled are the last of them; and when the handler
\* is back at its read, or has returned, the Map, the frames written, the
\* executor calls and the continuation requests are those of a session that
\* received the same text in one chunk (with the same executor outcomes).
C28_ChunkInvariance ==
    LET v == sessions[1]
        d == DecodeChunk(<<>>, v.consumed)
    IN /\ v.yielded = d.lines
       /\ v.buffer = d.buffer
       /\ v.lines = SubSeq(v.yielded, Len(v.yielded) - Len(v.lines) + 1, Len(v.yielded))
       /\ v.pc \in {"readOuter", "done"} =>
              Outcome(v) = Outcome(InOneChunk(v.consumed, v.outs))

\* C28 witness: a read began with the first part of a line in the buffer;
\* the call of that text was executed and continued, and a content frame of
\* a later line was written
C28_Witness ==
    LET v == sessions[1]
    IN /\ v.pc = "readOuter"
       /\ v.carried
       /\ v.upstream = <<>>
       /\ Len(v.yielded) = 3
       /\ v.outs = <<"ok">>
       /\ v.execLog = <<<<"calc", ArgWhole, "a1">>>>
       /\ v.res[Len(v.res)] = ContentFrame(<<"outer", 3>>)

\* C29: a step of one session changes no other session (its Map, its buffer,
\* its lines, its frames); every executor call and every continuation
\* request of a session is for the call its own upstream sent; and when a
\* session is back at its read, or has returned, it has done what it would
\* have done alone.
C29_SessionIsolation ==
    /\ [][ \A s, q \in 1..MaxSessions :
              (s # q /\ sessions'[s] # sessions[s]) => sessions'[q] = sessions[q] ]_vars
    /\ [](\A s \in 1..MaxSessions :
            LET v == sessions[s]
                id == Event(SessionCall(s)).tcs[1].id
            IN /\ \A i \in DOMAIN v.execLog : v.execLog[i][3] = id
               /\ \A i \in DOMAIN v.reqLog : v.reqLog[i].messages[3].tool_call_id = id
               /\ \A i \in DOMAIN v.map : v.map[i].id = id
               /\ v.pc \in {"readOuter", "done"} =>
                      Outcome(v) = Outcome(InOneChunk(v.consumed, v.outs)))

\* C29 witness: the executor is awaited in session 1 for its call while
\* session 2 holds its own call in its Map and the first part of a line in
\* its buffer
C29_Witness ==
    /\ sessions[1].pc = "exec"
    /\ sessions[1].accumulated = WholeCall("a1")
    /\ sessions[2].pc = "readOuter"
    /\ sessions[2].map = <<WholeCall("a2")>>
    /\ sessions[2].buffer # <<>>
    /\ sessions[1].map = <<WholeCall("a1")>>

\* the fragments merged by the step being taken, none if it merges nothing
MergedNow == IF lastMerge' # lastMerge THEN lastMerge'.tcs ELSE <<>>

\* C31: an entry whose name is set keeps that name as long as it is in the
\* table, whatever fragments arrive.
C31_NameImmutable ==
    [][ \A i \in DOMAIN accumulatedToolCalls :
            LET e == accumulatedToolCalls[i]
            IN (e.name # "" /\ Has(accumulatedToolCalls', e.id)) =>
                  accumulatedToolCalls'[IndexOf(accumulatedToolCalls', e.id)].name = e.name ]_vars

\* C31 amended: an entry whose name is set keeps it through every fragment
\* that carries no name (fragments with its id and fragments without an id)
\* and through every step that merges nothing; a fragment with its id and a
\* non-empty name replaces the name by its own, the last such fragment of
\* an event deciding.
C31_NameReplacedOnlyByNamedFragment ==
    [][ \A i \in DOMAIN accumulatedToolCalls :
            LET e == accumulatedToolCalls[i]
                named == {k \in DOMAIN MergedNow :
                            MergedNow[k].id = e.id /\ MergedNow[k].name # ""}
            IN (e.name # "" /\ Has(accumulatedToolCalls', e.id)) =>
                  accumulatedToolCalls'[IndexOf(accumulatedToolCalls', e.id)].name =
                      IF named = {} THEN e.name
                      ELSE MergedNow[CHOOSE k \in named : \A m \in named : m <= k].name ]_vars

\* C31 witness: an entry named "calc" received a fragment with its id and
\* the name "ulate" and is now named "ulate"
C31_Witness ==
    \E i \in DOMAIN accumulatedToolCalls :
        LET e == accumulatedToolCalls[i]
        IN /\ sent[e.id].names = <<"calc", "ulate">>
           /\ e.name = "ulate"
           /\ lastMerge.before # <<>>
           /\ lastMerge.before[IndexOf(lastMerge.before, e.id)].name = "calc"

\* the continuation stream being read has delivered its [DONE] line
NestedDoneSeen == nestedDone > 0 /\ nestedDone = Len(reqLog)

\* a step taken while a continuation stream is read
NestedStep ==
    pc \in {"readTool", "readErr"} =>
        /\ Count(res', "done") = Count(res, "done")
        /\ Count(res', "end") = Count(res, "end")
        /\ (nNested' # nNested => pc' = pc)
        /\ (pc' # pc => pc' \in {"exec", "fetchErr", "readOuter"})

\* a response that was ended
EndedBy ==
    Count(res, "end") > 0 =>
        /\ pc = "done"
        /\ Len(res) >= 2
        /\ res[Len(res)] = EndMark
        /\ res[Len(res) - 1].k \in {"json400", "done", "error"}
        /\ (res[Len(res) - 1].k = "done" => lineRead.kind = "done")

\* C32: while a continuation stream is read, no [DONE] frame is written and
\* the response is not ended, whether or not the stream delivers its own
\* [DONE]; a chunk leaves the handler on that stream, and when the stream is
\* over the handler goes on with the next call of the sweep or the next
\* outer line.  A response that has been ended was ended by the validation
\* answer, by the outer [DONE] line or by the error frame of the outer catch.
C32_NestedDoneDoesNotClose == [][NestedStep]_vars /\ []EndedBy

\* a continuation stream delivered [DONE], ended, and the handler is back at
\* the outer stream with the response still open
C32_Witness ==
    /\ pc = "readOuter"
    /\ nestedDone > 0
    /\ nestedDone = Len(reqLog)
    /\ Count(res, "end") = 0
    /\ Count(res, "done") = 0

\* C33: a session whose outer reader reported done ends the client response.
\* The handler has returned when pc = "done" and no later step of the
\* session exists, so the response is ended eventually exactly when it is
\* ended in that state.
C33_UpstreamEndEndsResponse ==
    (pc = "done" /\ http.status = "200 text/event-stream") => Count(res, "end") > 0

\* the content delta of the event on outer line n, NoContent if it has none
ContentOfLine(n) ==
    IF \E k \in DOMAIN recv : recv[k] = <<"outer", n>> THEN <<"outer", n>> ELSE NoContent

\* the position in trace of the outer line during whose handling trace[t]
\* happened, 0 if none
LineOf(t) ==
    LET ls == {u \in 1..t : trace[u].e = "line"}
    IN IF ls = {} THEN 0 ELSE CHOOSE u \in ls : \A v \in ls : v <= u

\* C34: every frame written while an outer event with a content delta is
\* handled, other than that event's own content frame (so the tool summary
\* frames and the content of the continuation streams it started), comes
\* after the event's content frame in the client stream.
C34_EventContentFirst ==
    \A t \in DOMAIN trace :
        (trace[t].e = "write" /\ LineOf(t) # 0) =>
            LET w == trace[t].n
                c == ContentOfLine(trace[LineOf(t)].n)
            IN (c # NoContent /\ res[w] # ContentFrame(c)) =>
                   \E i \in 1..(w - 1) : res[i] = ContentFrame(c)

\* C35: after a continuation stream has delivered its [DONE] line, a later
\* chunk of that stream writes nothing to the client.
C35_NothingAfterNestedDone ==
    [][ (pc \in {"readTool", "readErr"} /\ NestedDoneSeen /\ nNested' # nNested)
            => res' = res ]_vars

\* the text up to its last line break
Terminated(t) == SubSeq(t, 1, Len(t) - Len(DecodeChunk(<<>>, t).buffer))

\* what a session has made of its lines
Effects(v) == <<v.yielded, v.map, v.res, v.execLog, v.reqLog>>

\* C36: only lines whose line break has arrived are handled: whenever the
\* handler is at its read or has returned, the lines split off, the Map, the
\* frames, the executor calls and the continuation requests are those of the
\* text read so far cut off after its last line break; and the step in which
\* the reader reports done changes nothing of the session but its position,
\* so the text in the buffer is dropped unhandled.
C36_UnterminatedLineDropped ==
    /\ [][ (sessions[1].pc = "readOuter" /\ sessions'[1].pc = "done"
                /\ sessions'[1].consumed = sessions[1].consumed)
              => sessions'[1] = [sessions[1] EXCEPT !.pc = "done"] ]_vars
    /\ [](sessions[1].pc \in {"readOuter", "done"} =>
              Effects(sessions[1]) =
                  Effects(InOneChunk(Terminated(sessions[1].consumed), sessions[1].outs)))

\* C36 witness: the reader reported done while the buffer held an
\* unterminated tool-call event; nothing was merged for it and the response
\* was not ended
C36_Witness ==
    LET v == sessions[1]
    IN /\ v.pc = "done"
       /\ v.upstream = <<>>
       /\ v.buffer = <<Data, "Fa1">>
       /\ v.yielded # <<>>
       /\ v.map = <<>>
       /\ v.execLog = <<>>
       /\ Count(v.res, "end") = 0

\* the continuation requests issued since the outer line being handled was read
RequestsOfLine == {i \in (LastLine + 1)..Len(trace) : trace[i].e = "request"}

\* a continuation request made of the original messages, one assistant turn
\* with one call, and one tool turn for that call
OneCallRequest(r) ==
    LET m == r.messages
        n == Len(OrigMessages)
    IN /\ Len(m) = n + 2
       /\ SubSeq(m, 1, n) = OrigMessages
       /\ m[n + 1].role = "assistant"
       /\ m[n + 1].content = ""
       /\ Len(m[n + 1].tool_calls) = 1
       /\ m[n + 2].role = "tool"
       /\ m[n + 2].tool_call_id = m[n + 1].tool_calls[1].id

\* C37: the messages of the request are the same from its acceptance to the
\* end of the session, and every continuation request is the original
\* messages followed by the assistant turn and the tool turn of one call, the
\* call being dispatched; no turn of an earlier call is in a later request.
C37_ContinuationMessages ==
    /\ [][pc \notin {"start", "done"} => http'.messages = http.messages]_vars
    /\ [](\A k \in DOMAIN reqLog : OneCallRequest(reqLog[k]))
    /\ []((pc \in {"fetchTool", "readTool", "fetchErr", "readErr"}) =>
              reqLog[Len(reqLog)].messages[Len(OrigMessages) + 1].tool_calls = <<accumulated>>)

\* C37 witness: the sweep of one finish event has issued the continuation
\* request of a second call after the one of a first call
C37_Witness ==
    /\ Cardinality(RequestsOfLine) = 2
    /\ Len(reqLog) = 2
    /\ reqLog[1].messages[3].tool_call_id # reqLog[2].messages[3].tool_call_id
    /\ reqLog[1].messages[3].content = ResultContent("calc")

\* C38: a tool is executed for a chat request only if the request's headers
\* pass authMiddleware.
C38_ExecuteOnlyAuthenticated ==
    execLog # <<>> => AuthMiddleware(headers.key, headers.auth, env).next
====
